---------------------------- MODULE Spec2Model ----------------------------
(***************************************************************************)
(* A model of the terrain generator of jurdendurden/battletech:            *)
(*   src/map_generator.py  (MapGenerator: biomes, rivers, map assembly)    *)
(*   src/simplex_noise.py  (SimplexNoise: permutation table, noise)        *)
(*                                                                         *)
(* Elevation and climate are real numbers in the program; here they are    *)
(* integers counting hundredths (0.3 is 30, 0.85 is 85), so that every     *)
(* comparison of the program is an exact integer comparison.  River widths *)
(* are exact rationals <<numerator, denominator>>.                         *)
(***************************************************************************)
EXTENDS Integers, Sequences, FiniteSets, TLC

(***************************************************************************)
(* Bounds of the model.                                                    *)
(***************************************************************************)
GridW == 6
GridH == 7
MaxSources == 2

(***************************************************************************)
(* Program constants (MapGenerator.__init__), in hundredths where real.    *)
(***************************************************************************)
min_river_length == 14
river_source_elevation_threshold == 70
water_level == 30

VARIABLES
    \* ---- MapGenerator configuration and generate_map locals
    width, height,          \* self.width, self.height
    pc,                     \* position inside generate_map
    elevation_map,          \* [cell -> hundredths]
    climate_map,            \* [cell -> hundredths]
    elevation_noise,        \* self.elevation_noise: which noise function the source is
    climate_noise,          \* self.climate_noise: which noise function the source is
    map_data,               \* [cell -> [terrain_type, color]]
    outcome,                \* "none" | "grid" | an exception name
    stage_log,              \* the stages of generate_map completed so far, in order
    \* ---- generate_rivers / trace_river_path locals
    sources, src_idx,       \* the sorted sources and the loop position
    river_paths,            \* accepted paths
    river_cells,            \* cells claimed by accepted paths
    path, visited,          \* trace_river_path: path and visited set
    current, last_elevation,\* trace_river_path: current cell and last elevation
    trace_end,              \* why the last trace stopped: "none" | "dead_end" | "water"
    \* ---- apply_rivers_to_map locals
    river_widths,           \* [cell -> rational]
    applied_cells,          \* river_cells of apply_rivers_to_map
    new_river_cells,        \* cells found by the current repair scan, not yet added
    gaps_filled,            \* the flag of the repair loop
    computed_widths,        \* per accepted path, the widths computed along it (before max-merging)
    repair_rounds,          \* number of completed scans of the repair loop
    \* ---- one call of get_biome_type
    bio_elevation, bio_climate, \* the arguments, in hundredths
    bio_result,             \* the returned category, "none" before the call
    \* ---- noise sources and field generation of two generators
    rng,                    \* the state of the module-level generator of random
    draws,                  \* draws other code has made from that generator
    gen_pc,                 \* per generator: "new" | "elevation" | "constructed" | "generated"
    gen_seed,               \* per generator: the seeds its two noise sources were built with
    gen_perm,               \* per generator: the permutation tables of its two noise sources
    gen_cfg,                \* per generator: <<width, height, scale>>
    gen_fields,             \* per generator: the fields of generate_map's first pass
    \* ---- the game's player
    player                  \* the Player row and the bookkeeping of its current turn

mapVars == <<width, height, pc, elevation_noise, climate_noise, elevation_map,
             climate_map, map_data,
             outcome, stage_log>>
riverVars == <<sources, src_idx, river_paths, river_cells, path, visited,
               current, last_elevation, trace_end>>
applyVars == <<river_widths, applied_cells, new_river_cells, gaps_filled,
               computed_widths, repair_rounds>>
mapVars_but_pc == <<width, height, elevation_noise, climate_noise, elevation_map,
                    climate_map, map_data, outcome, stage_log>>
biomeVars == <<bio_elevation, bio_climate, bio_result>>
noiseVars == <<rng, draws, gen_pc, gen_seed, gen_perm, gen_cfg, gen_fields>>
vars == <<mapVars, riverVars, applyVars, biomeVars, noiseVars, player>>

(***************************************************************************)
(* Small helpers.                                                          *)
(***************************************************************************)
Abs(n) == IF n < 0 THEN -n ELSE n
Min(a, b) == IF a < b THEN a ELSE b
Max(a, b) == IF a > b THEN a ELSE b
Range(s) == {s[i] : i \in 1..Len(s)}

\* Python's int(): truncation toward zero of the rational n/d (d > 0).
PyInt(n, d) == IF n >= 0 THEN n \div d ELSE -((-n) \div d)

\* Python's floor of the rational n/d (d > 0).
PyFloor(n, d) == n \div d

\* Python's list indexing palette[i]: negative indexes count from the end;
\* "IndexError" when out of range.
PyIndex(list, i) ==
    IF i >= 0 /\ i < Len(list) THEN list[i + 1]
    ELSE IF i < 0 /\ -i <= Len(list) THEN list[Len(list) + i + 1]
    ELSE "IndexError"

(***************************************************************************)
(* The grid: cells are <<x, y>>, (0,0) top-left.                           *)
(***************************************************************************)
CellsOf(w, h) == {<<x, y>> : x \in 0..(w - 1), y \in 0..(h - 1)}
Cells == CellsOf(width, height)
InGrid(x, y) == 0 <= x /\ x < width /\ 0 <= y /\ y < height

OrthogonalOffsets == << <<0, -1>>, <<0, 1>>, <<-1, 0>>, <<1, 0>> >>
DiagonalOffsets == << <<-1, -1>>, <<-1, 1>>, <<1, -1>>, <<1, 1>> >>

\* get_neighbors: the in-grid neighbours of (x, y), orthogonal ones first.
get_neighbors(x, y) ==
    LET offs == OrthogonalOffsets \o DiagonalOffsets
    IN  SelectSeq([i \in 1..Len(offs) |-> <<x + offs[i][1], y + offs[i][2]>>],
                  LAMBDA c : InGrid(c[1], c[2]))

IsOrthogonalStep(c, x, y) == Abs(c[1] - x) + Abs(c[2] - y) = 1


(***************************************************************************)
(* find_flow_direction (map_generator.py 178-238).                         *)
(***************************************************************************)
NoPos == <<>>

\* A scan that keeps the first lower neighbour it meets.
RECURSIVE BestLowerFirst(_, _, _, _, _, _, _)
BestLowerFirst(nbrs, i, x, y, vis, best_drop, best_pos) ==
    IF i > Len(nbrs) THEN best_pos
    ELSE LET n == nbrs[i]
             elevation_drop == elevation_map[<<x, y>>] - elevation_map[n]
             take == n \notin vis /\ elevation_drop > 0 /\ best_pos = NoPos
         IN  BestLowerFirst(nbrs, i + 1, x, y, vis,
                            IF take THEN elevation_drop ELSE best_drop,
                            IF take THEN n ELSE best_pos)

\* A scan in which the last neighbour of the largest drop wins.
RECURSIVE BestLowerLastWins(_, _, _, _, _, _, _)
BestLowerLastWins(nbrs, i, x, y, vis, best_drop, best_pos) ==
    IF i > Len(nbrs) THEN best_pos
    ELSE LET n == nbrs[i]
             elevation_drop == elevation_map[<<x, y>>] - elevation_map[n]
             take == n \notin vis /\ elevation_drop > 0 /\ elevation_drop >= best_drop
         IN  BestLowerLastWins(nbrs, i + 1, x, y, vis,
                               IF take THEN elevation_drop ELSE best_drop,
                               IF take THEN n ELSE best_pos)

\* Lines 188-202, the scan for the best lower neighbour: a strictly larger
\* drop wins, an equal drop wins when the neighbour is orthogonal.
RECURSIVE BestLower(_, _, _, _, _, _, _)
BestLower(nbrs, i, x, y, vis, best_drop, best_pos) ==
    IF i > Len(nbrs) THEN best_pos
    ELSE LET n == nbrs[i]
             elevation_drop == elevation_map[<<x, y>>] - elevation_map[n]
             take == /\ n \notin vis
                     /\ elevation_drop > 0
                     /\ \/ elevation_drop > best_drop
                        \/ (elevation_drop = best_drop /\ IsOrthogonalStep(n, x, y))
         IN  BestLower(nbrs, i + 1, x, y, vis,
                       IF take THEN elevation_drop ELSE best_drop,
                       IF take THEN n ELSE best_pos)

\* Flat neighbours collected without looking at the visited set.
FlatNeighborsAll(x, y, vis) ==
    SelectSeq(get_neighbors(x, y),
              LAMBDA n : elevation_map[n] = elevation_map[<<x, y>>])

\* Lines 201-202: the unvisited neighbours of equal elevation, in neighbour order.
FlatNeighbors(x, y, vis) ==
    SelectSeq(get_neighbors(x, y),
              LAMBDA n : n \notin vis /\ elevation_map[n] = elevation_map[<<x, y>>])

\* A BFS that returns the lower cell it found instead of the first hop.
RECURSIVE BfsNeighborsFinal(_, _, _, _, _, _)
BfsNeighborsFinal(nbrs, i, p, queue, flat_visited, current_elevation) ==
    IF i > Len(nbrs)
    THEN [found |-> FALSE, pos |-> NoPos, queue |-> queue, flat_visited |-> flat_visited]
    ELSE LET n == nbrs[i]
         IN  IF n \in flat_visited
             THEN BfsNeighborsFinal(nbrs, i + 1, p, queue, flat_visited, current_elevation)
             ELSE IF elevation_map[n] < current_elevation
             THEN [found |-> TRUE, pos |-> n, queue |-> queue, flat_visited |-> flat_visited]
             ELSE IF elevation_map[n] = current_elevation
             THEN BfsNeighborsFinal(nbrs, i + 1, p, Append(queue, <<n, Append(p, n)>>),
                                    flat_visited \cup {n}, current_elevation)
             ELSE BfsNeighborsFinal(nbrs, i + 1, p, queue, flat_visited, current_elevation)

\* Lines 216-228, the inner loop of the plateau BFS over the neighbours of one
\* dequeued cell, whose path from the start is p.  The BFS skips the cells of
\* its own flat_visited set only: it does not look at the trace's visited set.
RECURSIVE BfsNeighbors(_, _, _, _, _, _)
BfsNeighbors(nbrs, i, p, queue, flat_visited, current_elevation) ==
    IF i > Len(nbrs)
    THEN [found |-> FALSE, pos |-> NoPos, queue |-> queue, flat_visited |-> flat_visited]
    ELSE LET n == nbrs[i]
         IN  IF n \in flat_visited
             THEN BfsNeighbors(nbrs, i + 1, p, queue, flat_visited, current_elevation)
             ELSE IF elevation_map[n] < current_elevation
             THEN [found |-> TRUE, pos |-> IF p # <<>> THEN p[1] ELSE n,
                   queue |-> queue, flat_visited |-> flat_visited]
             ELSE IF elevation_map[n] = current_elevation
             THEN BfsNeighbors(nbrs, i + 1, p, Append(queue, <<n, Append(p, n)>>),
                               flat_visited \cup {n}, current_elevation)
             ELSE BfsNeighbors(nbrs, i + 1, p, queue, flat_visited, current_elevation)

\* Lines 214-228: the BFS loop; NoPos when the queue runs empty.
RECURSIVE BfsLoop(_, _, _)
BfsLoop(queue, flat_visited, current_elevation) ==
    IF queue = <<>> THEN NoPos
    ELSE LET c == Head(queue)[1]
             p == Head(queue)[2]
             r == BfsNeighbors(get_neighbors(c[1], c[2]), 1, p, Tail(queue),
                               flat_visited, current_elevation)
         IN  IF r.found THEN r.pos
             ELSE BfsLoop(r.queue, r.flat_visited, current_elevation)

\* Lines 230-236: the fallback among flat neighbours when the BFS finds no
\* lower ground; random.choice is a free choice among the candidates.
FlatFallback(x, y, flat) ==
    LET orthogonal_neighbors == SelectSeq(flat, LAMBDA n : IsOrthogonalStep(n, x, y))
    IN  IF orthogonal_neighbors # <<>> THEN Range(orthogonal_neighbors) ELSE Range(flat)

\* A search that stops when no neighbour is lower.
find_flow_direction_lower_only(x, y, vis) ==
    LET best_pos == BestLower(get_neighbors(x, y), 1, x, y, vis, 0, NoPos)
    IN  IF best_pos # NoPos THEN {best_pos} ELSE {}

\* The set of positions find_flow_direction may return; {} stands for None.
find_flow_direction(x, y, vis) ==
    LET best_pos == BestLower(get_neighbors(x, y), 1, x, y, vis, 0, NoPos)
        flat_neighbors == FlatNeighbors(x, y, vis)
    IN  IF best_pos # NoPos THEN {best_pos}
        ELSE IF flat_neighbors # <<>>
        THEN LET hop == BfsLoop(<< <<<<x, y>>, <<>>>> >>, {<<x, y>>},
                                elevation_map[<<x, y>>])
             IN  IF hop # NoPos THEN {hop} ELSE FlatFallback(x, y, flat_neighbors)
        ELSE {}

(***************************************************************************)
(* trace_river_path (map_generator.py 240-302): one iteration of the loop. *)
(***************************************************************************)
\* |elev - last_elevation| of a diagonal step's intermediate cell; -1 stands
\* for the infinite distance of float('inf') (lines 269-270).
OptionDistance(opt, inRange, last) ==
    IF inRange THEN Abs(elevation_map[opt] - last) ELSE -1

\* a < b on distances where -1 is infinity (inf < inf is false).
DistanceLess(a, b) == a >= 0 /\ (b < 0 \/ a < b)

\* A diagonal insert that does not look at the visited set.
DiagonalInsertUnguarded(cx, cy, dx, dy, vis, last) ==
    LET option1 == <<cx + dx, cy>>
        option2 == <<cx, cy + dy>>
        d1 == OptionDistance(option1, option1[1] >= 0 /\ option1[1] < width, last)
        d2 == OptionDistance(option2, option2[2] >= 0 /\ option2[2] < height, last)
    IN  IF DistanceLess(d1, d2) THEN <<option1>> ELSE <<option2>>

\* A trace that inserts nothing before a diagonal step.
DiagonalInsertNothing(cx, cy, dx, dy, vis, last) == <<>>

\* Lines 263-279: the cells inserted before a diagonal step to nxt.
DiagonalInsert(cx, cy, dx, dy, vis, last) ==
    LET option1 == <<cx + dx, cy>>
        option2 == <<cx, cy + dy>>
        d1 == OptionDistance(option1, option1[1] >= 0 /\ option1[1] < width, last)
        d2 == OptionDistance(option2, option2[2] >= 0 /\ option2[2] < height, last)
    IN  IF DistanceLess(d1, d2)
        THEN (IF option1 \notin vis THEN <<option1>> ELSE <<>>)
        ELSE (IF option2 \notin vis THEN <<option2>> ELSE <<>>)

\* Lines 281-288: the cells inserted for a jump of more than one cell.
RECURSIVE JumpInsert(_, _, _, _, _, _, _, _)
JumpInsert(cx, cy, dx, dy, steps, i, vis, acc) ==
    IF i >= steps THEN acc
    ELSE LET c == <<cx + PyInt(dx * i, steps), cy + PyInt(dy * i, steps)>>
         IN  IF c \notin vis
             THEN JumpInsert(cx, cy, dx, dy, steps, i + 1, vis \cup {c}, Append(acc, c))
             ELSE JumpInsert(cx, cy, dx, dy, steps, i + 1, vis, acc)

\* The cells appended before next_pos in one iteration (lines 258-288).
Inserted(cx, cy, nxt, vis, last) ==
    LET dx == nxt[1] - cx
        dy == nxt[2] - cy
    IN  IF Abs(dx) = 1 /\ Abs(dy) = 1 THEN DiagonalInsert(cx, cy, dx, dy, vis, last)
        ELSE IF Abs(dx) > 1 \/ Abs(dy) > 1
        THEN JumpInsert(cx, cy, dx, dy, Max(Abs(dx), Abs(dy)), 1, vis, <<>>)
        ELSE <<>>

\* TraceResult with the length test off by one.
TraceResultOffByOne(p) == IF Len(p) >= min_river_length - 1 THEN p ELSE <<>>

\* Line 302: the value trace_river_path returns for a finished path.
TraceResult(p) == IF Len(p) >= min_river_length THEN p ELSE <<>>

(***************************************************************************)
(* Colour palettes (map_generator.py 23-95).                               *)
(***************************************************************************)
deep_ocean == <<"#000033", "#000040", "#00004D", "#000059",
                "#000066", "#000073", "#000080", "#00008C">>
shallow_water == <<"#000099", "#0000B2", "#0000CC", "#0000E6", "#0000FF", "#1A1AFF">>
river == <<"#99CCFF", "#66B2FF", "#3399FF", "#0080FF">>
beach == <<"#FFE5B2", "#FFD480", "#FFC74D", "#FFBA1A">>
tundra == <<"#E0E0E0", "#D1D1D1", "#C2C2C2", "#B3B3B3", "#A4A4A4", "#959595">>
desert == <<"#FFE5B2", "#FFDB99", "#FFD180", "#FFC766",
            "#FFBD4D", "#FFB333", "#FFA91A", "#FF9F00">>
plains == <<"#90EE90", "#7CEB7C", "#68E868", "#54E554", "#40E240", "#2CDF2C">>
forest == <<"#228B22", "#1E7B1E", "#1A6B1A", "#165B16", "#124B12", "#0E3B0E">>
jungle == <<"#004D00", "#004000", "#003300", "#002600", "#001900", "#000C00">>
hills == <<"#8B4513", "#7A3D11", "#69350F", "#582D0D", "#47250B", "#361D09">>
mountains == <<"#696969", "#5A5A5A", "#4B4B4B", "#3C3C3C", "#2D2D2D", "#1E1E1E">>
snow_peaks == <<"#FFFFFF", "#F2F2F2">>

\* getattr(self, biome_type): the palette of a terrain category.
Palette(biome_type) ==
    CASE biome_type = "deep_ocean" -> deep_ocean
      [] biome_type = "shallow_water" -> shallow_water
      [] biome_type = "river" -> river
      [] biome_type = "beach" -> beach
      [] biome_type = "tundra" -> tundra
      [] biome_type = "desert" -> desert
      [] biome_type = "plains" -> plains
      [] biome_type = "forest" -> forest
      [] biome_type = "jungle" -> jungle
      [] biome_type = "hills" -> hills
      [] biome_type = "mountains" -> mountains
      [] biome_type = "snow_peaks" -> snow_peaks

(***************************************************************************)
(* get_biome_type (map_generator.py 97-126), elevation and climate in      *)
(* hundredths.  floor(climate * 5) / 5 is a multiple of 0.2: in hundredths *)
(* it is 20 * floor(climate * 5 / 100).                                    *)
(***************************************************************************)
ClimateValueRounded(climate) == 20 * PyFloor(climate * 5 + 50, 100)
ClimateValue(climate) == 20 * PyFloor(climate * 5, 100)

get_biome_type(elevation, climate) ==
    IF elevation < 20 THEN "deep_ocean"
    ELSE IF elevation < 30 THEN "shallow_water"
    ELSE IF elevation < 35 THEN "beach"
    ELSE IF elevation >= 85 THEN "snow_peaks"
    ELSE IF elevation >= 75 THEN "mountains"
    ELSE IF elevation >= 65 THEN "hills"
    ELSE IF ClimateValue(climate) < 20 THEN "tundra"
    ELSE IF ClimateValue(climate) < 40 THEN "desert"
    ELSE IF ClimateValue(climate) < 60 THEN "plains"
    ELSE IF ClimateValue(climate) < 80 THEN "forest"
    ELSE "jungle"

\* ColorIndex without the clamp to the last index of the palette.
ColorIndexUnclamped(v, palette) == PyInt(v * Len(palette), 100)

\* Lines 152-158: the colour index; v is the elevation (water) or the local
\* noise sample (land), in hundredths.
ColorIndex(v, palette) == Min(PyInt(v * Len(palette), 100), Len(palette) - 1)

\* get_biome_and_color (map_generator.py 143-160); lv is the value of
\* smooth_noise(x/5, y/5, self.elevation_noise, octaves=2), in hundredths.
get_biome_and_color(elevation, climate, lv) ==
    LET biome_type == get_biome_type(elevation, climate)
        color_palette == Palette(biome_type)
        color_index == IF biome_type \in {"deep_ocean", "shallow_water"}
                       THEN ColorIndex(elevation, color_palette)
                       ELSE ColorIndex(lv, color_palette)
    IN  [terrain_type |-> biome_type, color |-> PyIndex(color_palette, color_index)]

(***************************************************************************)
(* The noise sources.  A SimplexNoise instance is a random permutation     *)
(* table, so each source is one of a few fixed noise functions, picked at  *)
(* construction: an elevation source fixes the elevation field (octaves=4  *)
(* at (x/scale, y/scale)) and the local colour variation (octaves=2 at     *)
(* (x/5, y/5)); a climate source fixes the climate field.  The elevation   *)
(* fields are tables in hundredths, row by row; a cell outside the table   *)
(* sits at the source threshold.                                           *)
(***************************************************************************)
SnakeOne ==
    << <<75, 68, 67, 66, 65, 64>>,
    <<70, 70, 70, 80, 70, 63>>,
    <<57, 58, 59, 60, 61, 62>>,
    <<56, 70, 70, 70, 70, 70>>,
    <<55, 54, 53, 52, 51, 50>>,
    <<70, 70, 71, 70, 70, 49>>,
    <<43, 44, 45, 46, 47, 48>> >>

SnakeTwo ==
    << <<75, 74, 65, 63, 61, 59>>,
    <<76, 76, 70, 70, 70, 57>>,
    <<45, 47, 49, 51, 53, 55>>,
    <<43, 70, 71, 70, 70, 70>>,
    <<41, 39, 37, 35, 33, 31>>,
    <<70, 70, 70, 70, 70, 29>>,
    <<17, 19, 21, 23, 25, 27>> >>

TwoArms ==
    << <<76, 68, 67, 66, 65, 64>>,
    <<70, 70, 70, 70, 70, 63>>,
    <<57, 58, 59, 60, 61, 62>>,
    <<20, 70, 70, 70, 70, 70>>,
    <<56, 57, 58, 59, 60, 61>>,
    <<70, 70, 70, 70, 70, 62>>,
    <<75, 67, 66, 65, 64, 63>> >>

RingLowElbow ==
    << <<75, 60, 70, 60, 60, 60>>,
    <<60, 60, 65, 70, 70, 60>>,
    <<60, 70, 60, 60, 60, 60>>,
    <<60, 60, 60, 70, 70, 70>>,
    <<70, 70, 70, 70, 70, 70>>,
    <<70, 70, 70, 70, 70, 70>>,
    <<70, 70, 70, 70, 70, 70>> >>

RingEvenElbows ==
    << <<75, 60, 70, 60, 60, 60>>,
    <<60, 60, 70, 70, 70, 60>>,
    <<60, 70, 60, 60, 60, 60>>,
    <<60, 60, 60, 70, 70, 70>>,
    <<70, 70, 70, 70, 70, 70>>,
    <<70, 70, 70, 70, 70, 70>>,
    <<70, 70, 70, 70, 70, 70>> >>

FlatPit ==
    << <<75, 60, 60, 60, 70, 70>>,
    <<60, 60, 60, 60, 70, 70>>,
    <<60, 60, 60, 60, 70, 70>>,
    <<60, 60, 60, 60, 70, 70>>,
    <<70, 70, 70, 70, 70, 70>>,
    <<70, 70, 70, 70, 70, 70>>,
    <<70, 70, 70, 70, 70, 70>> >>

ElevationTables == <<SnakeOne, SnakeTwo, TwoArms, RingLowElbow, RingEvenElbows, FlatPit>>
ElevationSources == 1..Len(ElevationTables)
ClimateSources == 1..2

\* smooth_noise(x/scale, y/scale, elevation_noise, octaves=4) for source n.
ElevationSample(n, x, y) ==
    LET t == ElevationTables[n]
    IN  IF y + 1 <= Len(t) /\ x + 1 <= Len(t[y + 1]) THEN t[y + 1][x + 1]
        ELSE river_source_elevation_threshold

\* smooth_noise(x/5, y/5, elevation_noise, octaves=2) for source n.
LocalSample(n, x, y) == (37 * x + 11 * y + 50 * n) % 101

\* smooth_noise(x*0.5/scale, y*0.5/scale, climate_noise, octaves=2) for source m.
ClimateSample(m, x, y) == (17 * x + 23 * y + 40 * m) % 101

(***************************************************************************)
(* Exact rationals <<n, d>>, d > 0, in lowest terms.                       *)
(***************************************************************************)
RECURSIVE Gcd(_, _)
Gcd(a, b) == IF b = 0 THEN a ELSE Gcd(b, a % b)

Rat(n, d) == LET g == Gcd(Abs(n), d) IN <<n \div g, d \div g>>
RatAdd(a, b) == Rat(a[1] * b[2] + b[1] * a[2], a[2] * b[2])
RatMul(a, b) == Rat(a[1] * b[1], a[2] * b[2])
RatLeq(a, b) == a[1] * b[2] <= b[1] * a[2]
RatLess(a, b) == a[1] * b[2] < b[1] * a[2]
RatMin(a, b) == IF RatLess(b, a) THEN b ELSE a
RatMax(a, b) == IF RatLess(a, b) THEN b ELSE a

RECURSIVE RatSum(_)
RatSum(ws) == IF ws = <<>> THEN Rat(0, 1) ELSE RatAdd(Head(ws), RatSum(Tail(ws)))

(***************************************************************************)
(* find_river_sources and the sort of generate_rivers (304-324).           *)
(***************************************************************************)
\* The cells of the grid in scan order (for y: for x:).
ScanCells ==
    IF width > 0 /\ height > 0
    THEN [i \in 1..(width * height) |-> <<(i - 1) % width, (i - 1) \div width>>]
    ELSE <<>>

\* Line 309: the cells eligible as sources.
SourceCandidates == {c \in Cells : elevation_map[c] > river_source_elevation_threshold}

\* The list find_river_sources returns when the 10% draws select the set S.
find_river_sources(S) == SelectSeq(ScanCells, LAMBDA c : c \in S)

\* The sources left in scan order.
SortSourcesNot(seq) == seq

\* Line 324: list.sort(key=elevation, reverse=True) is stable: cells of equal
\* elevation keep their scan order.
RECURSIVE SortSources(_)
SortSources(seq) ==
    IF seq = <<>> THEN <<>>
    ELSE LET rest == SortSources(Tail(seq))
             h == Head(seq)
             k == Cardinality({i \in 1..Len(rest) : elevation_map[rest[i]] > elevation_map[h]})
         IN  SubSeq(rest, 1, k) \o <<h>> \o SubSeq(rest, k + 1, Len(rest))

\* Line 337: the number of positions of p that lie in claimed cells.
Overlap(p, claimed) == Cardinality({i \in 1..Len(p) : p[i] \in claimed})

\* OverlapAllowed with the share of 70% in place of 30%.
OverlapAllowedSeventy(overlap, len) == 10 * overlap < 7 * len

\* Line 338: overlap < len(path) * 0.3.
OverlapAllowed(overlap, len) == 10 * overlap < 3 * len

(***************************************************************************)
(* apply_rivers_to_map (344-410).                                          *)
(***************************************************************************)
\* PathWidth narrowing downstream: the progress term subtracted.
PathWidthNarrowing(len, i) ==
    LET base_width == RatMin(Rat(len, 20), Rat(3, 1))
        progress == Rat(i, len)
    IN  RatMul(base_width, RatAdd(Rat(1, 1), RatMul(Rat(-1, 2), progress)))

\* Lines 353-359: the width computed for position i (from 0) of a path of length len.
PathWidth(len, i) ==
    LET base_width == RatMin(Rat(len, 20), Rat(3, 1))
        progress == Rat(i, len)
    IN  RatMul(base_width, RatAdd(Rat(1, 2), RatMul(Rat(1, 2), progress)))

\* A merge in which the last path to cross a cell sets its width.
MergeWidthOverwrite(widths, pos, w) ==
    [c \in (DOMAIN widths) \cup {pos} |-> IF c = pos THEN w ELSE widths[c]]

\* Line 360: river_widths[pos] = max(river_widths.get(pos, 0), width).
MergeWidth(widths, pos, w) ==
    LET old == IF pos \in DOMAIN widths THEN widths[pos] ELSE Rat(0, 1)
    IN  [c \in (DOMAIN widths) \cup {pos} |-> IF c = pos THEN RatMax(old, w) ELSE widths[c]]

\* Lines 356-361 for one path, from position i on.
RECURSIVE PathWidths(_, _, _)
PathWidths(p, i, widths) ==
    IF i >= Len(p) THEN widths
    ELSE PathWidths(p, i + 1, MergeWidth(widths, p[i + 1], PathWidth(Len(p), i)))

\* Lines 351-361: the first pass over all paths, from path k on.
RECURSIVE FirstPass(_, _, _)
FirstPass(paths, k, widths) ==
    IF k > Len(paths) THEN widths
    ELSE FirstPass(paths, k + 1, PathWidths(paths[k], 0, widths))

\* ElbowFor that inserts an elbow only when the first one is strictly lower.
ElbowForStrictOnly(c, d, cells) ==
    LET n == <<c[1] + d[1], c[2] + d[2]>>
        e1 == <<c[1] + d[1], c[2]>>
        e2 == <<c[1], c[2] + d[2]>>
    IN  IF InGrid(n[1], n[2]) /\ n \in cells /\ e1 \notin cells /\ e2 \notin cells
           /\ map_data[e1].elevation < map_data[e2].elevation
        THEN {e1}
        ELSE {}

\* Lines 369-389: the elbow one scan chooses for river cell c and diagonal
\* offset d, as a set ({} when there is no gap at c towards d).
ElbowFor(c, d, cells) ==
    LET n == <<c[1] + d[1], c[2] + d[2]>>
        e1 == <<c[1] + d[1], c[2]>>
        e2 == <<c[1], c[2] + d[2]>>
    IN  IF InGrid(n[1], n[2]) /\ n \in cells /\ e1 \notin cells /\ e2 \notin cells
        THEN {IF map_data[e1].elevation < map_data[e2].elevation THEN e1 ELSE e2}
        ELSE {}

\* new_river_cells after one whole scan of the repair loop.
ScanGaps(cells) ==
    UNION {ElbowFor(c, d, cells) : c \in cells, d \in Range(DiagonalOffsets)}

\* A gap fill that never assigns a width.
GapWidthUnset(pos, widths) == <<>>

\* Lines 396-400: the width given to gap-fill cell pos; <<>> when no neighbour has one.
GapWidth(pos, widths) ==
    LET neighbor_widths == SelectSeq(get_neighbors(pos[1], pos[2]),
                                     LAMBDA n : n \in DOMAIN widths)
        ws == [i \in 1..Len(neighbor_widths) |-> widths[neighbor_widths[i]]]
    IN  IF ws # <<>> THEN RatMul(RatSum(ws), Rat(1, Len(ws))) ELSE <<>>

\* WidthIndex rounding the width to the nearest integer instead of truncating it.
WidthIndexRounded(w) == Min((2 * w[1] + w[2]) \div (2 * w[2]), Len(river) - 1)

\* Line 408: min(int(width), len(self.river) - 1).
WidthIndex(w) == Min(PyInt(w[1], w[2]), Len(river) - 1)

\* A burn-in that rebuilds the cell record and drops its climate.
BurnCellFresh(cell, w) ==
    [elevation |-> cell.elevation, climate |-> 0,
     terrain_type |-> "river", color |-> river[WidthIndex(w) + 1]]

\* Lines 409-410: what burn-in writes into a river cell.
BurnCell(cell, w) ==
    [cell EXCEPT !.color = PyIndex(river, WidthIndex(w)), !.terrain_type = "river"]

(***************************************************************************)
(* generate_map (map_generator.py 412-459) as a state machine.             *)
(***************************************************************************)
\* The configurations MapGenerator is constructed with: the full grid, and
\* grids with a dimension that is zero or negative.
Configs == {<<GridW, GridH>>, <<0, GridH>>, <<GridW, 0>>, <<-1, -1>>}

NoCell == <<>>

riverIdle ==
    /\ sources = <<>> /\ src_idx = 1
    /\ river_paths = <<>> /\ river_cells = {}
    /\ path = <<>> /\ visited = {}
    /\ current = NoCell /\ last_elevation = 0
    /\ trace_end = "none"

applyIdle ==
    /\ river_widths = <<>> /\ applied_cells = {}
    /\ new_river_cells = {} /\ gaps_filled = FALSE
    /\ computed_widths = <<>> /\ repair_rounds = 0

biomeIdle == bio_elevation = 0 /\ bio_climate = 0 /\ bio_result = "none"

\* No character is loaded.
playerIdle == player = <<>>

noiseIdle ==
    /\ rng = 0 /\ draws = 0
    /\ gen_pc = <<>> /\ gen_seed = <<>> /\ gen_perm = <<>>
    /\ gen_cfg = <<>> /\ gen_fields = <<>>

\* MapGenerator.__init__ (7-21): the state after construction.
Init ==
    /\ \E cfg \in Configs : width = cfg[1] /\ height = cfg[2]
    /\ elevation_noise \in ElevationSources
    /\ climate_noise \in ClimateSources
    /\ pc = "start"
    /\ elevation_map = <<>> /\ climate_map = <<>> /\ map_data = <<>>
    /\ outcome = "none"
    /\ stage_log = <<>>
    /\ riverIdle
    /\ applyIdle
    /\ biomeIdle
    /\ noiseIdle
    /\ playerIdle

\* Lines 415-432: the first pass builds both fields for the whole grid.
BuildFields ==
    /\ pc = "start"
    /\ elevation_map' = [c \in Cells |-> ElevationSample(elevation_noise, c[1], c[2])]
    /\ climate_map' = [c \in Cells |-> ClimateSample(climate_noise, c[1], c[2])]
    /\ stage_log' = Append(stage_log, "fields")
    /\ pc' = "find_sources"
    /\ UNCHANGED <<width, height, elevation_noise, climate_noise, map_data, outcome>>
    /\ UNCHANGED <<riverVars, applyVars>>
    /\ UNCHANGED <<biomeVars, noiseVars, player>>

\* generate_rivers 317-324: the sources are found (each candidate is kept by
\* a 10% draw: any subset, here of at most MaxSources cells) and sorted.
FindSources ==
    /\ pc = "find_sources"
    /\ \E S \in SUBSET SourceCandidates :
          /\ Cardinality(S) <= MaxSources
          /\ sources' = SortSources(find_river_sources(S))
    /\ src_idx' = 1
    /\ river_paths' = <<>>
    /\ river_cells' = {}
    /\ pc' = "next_source"
    /\ UNCHANGED mapVars_but_pc
    /\ UNCHANGED <<path, visited, current, last_elevation, trace_end>>
    /\ UNCHANGED applyVars
    /\ UNCHANGED <<biomeVars, noiseVars, player>>

\* generate_rivers 327-333 and trace_river_path 242-245: the next source is
\* not yet part of a river, and its trace starts.
StartTrace ==
    /\ pc = "next_source"
    /\ src_idx <= Len(sources)
    /\ sources[src_idx] \notin river_cells
    /\ path' = <<sources[src_idx]>>
    /\ visited' = {sources[src_idx]}
    /\ current' = sources[src_idx]
    /\ last_elevation' = elevation_map[sources[src_idx]]
    /\ trace_end' = "none"
    /\ pc' = "trace"
    /\ UNCHANGED mapVars_but_pc
    /\ UNCHANGED <<sources, src_idx, river_paths, river_cells>>
    /\ UNCHANGED applyVars
    /\ UNCHANGED <<biomeVars, noiseVars, player>>

\* generate_rivers 329-330: a source that is already a river cell is skipped.
SkipSource ==
    /\ pc = "next_source"
    /\ src_idx <= Len(sources)
    /\ sources[src_idx] \in river_cells
    /\ src_idx' = src_idx + 1
    /\ UNCHANGED mapVars
    /\ UNCHANGED <<sources, river_paths, river_cells, path, visited, current,
                   last_elevation, trace_end>>
    /\ UNCHANGED applyVars
    /\ UNCHANGED <<biomeVars, noiseVars, player>>

\* trace_river_path 247-300: one iteration that finds a next position.
TraceStep ==
    /\ pc = "trace"
    /\ \E nxt \in find_flow_direction(current[1], current[2], visited) :
          LET ins == Inserted(current[1], current[2], nxt, visited, last_elevation)
          IN  /\ path' = path \o ins \o <<nxt>>
              /\ visited' = visited \cup Range(ins) \cup {nxt}
              /\ IF elevation_map[nxt] < water_level
                 THEN /\ pc' = "traced"
                      /\ trace_end' = "water"
                      /\ UNCHANGED <<current, last_elevation>>
                 ELSE /\ pc' = "trace"
                      /\ trace_end' = "none"
                      /\ current' = nxt
                      /\ last_elevation' = elevation_map[nxt]
    /\ UNCHANGED mapVars_but_pc
    /\ UNCHANGED <<sources, src_idx, river_paths, river_cells>>
    /\ UNCHANGED applyVars
    /\ UNCHANGED <<biomeVars, noiseVars, player>>

\* trace_river_path 249-253: no next position, the loop ends.
TraceDeadEnd ==
    /\ pc = "trace"
    /\ find_flow_direction(current[1], current[2], visited) = {}
    /\ pc' = "traced"
    /\ trace_end' = "dead_end"
    /\ UNCHANGED mapVars_but_pc
    /\ UNCHANGED <<sources, src_idx, river_paths, river_cells, path, visited,
                   current, last_elevation>>
    /\ UNCHANGED applyVars
    /\ UNCHANGED <<biomeVars, noiseVars, player>>

\* The trace is over: its locals are gone, the loop of generate_rivers goes on.
TraceReturned ==
    /\ src_idx' = src_idx + 1
    /\ path' = <<>> /\ visited' = {}
    /\ current' = NoCell /\ last_elevation' = 0 /\ trace_end' = "none"
    /\ pc' = "next_source"
    /\ UNCHANGED mapVars_but_pc
    /\ UNCHANGED sources
    /\ UNCHANGED applyVars

\* Lines 302 and 336: a path shorter than min_river_length comes back empty
\* and is dropped.
DropShort ==
    /\ pc = "traced"
    /\ TraceResult(path) = <<>>
    /\ UNCHANGED <<river_paths, river_cells>>
    /\ TraceReturned
    /\ UNCHANGED <<biomeVars, noiseVars, player>>

\* Lines 336-340: a path with less than 30% overlap is accepted.
AcceptPath ==
    /\ pc = "traced"
    /\ TraceResult(path) # <<>>
    /\ OverlapAllowed(Overlap(TraceResult(path), river_cells), Len(TraceResult(path)))
    /\ river_paths' = Append(river_paths, TraceResult(path))
    /\ river_cells' = river_cells \cup Range(TraceResult(path))
    /\ TraceReturned
    /\ UNCHANGED <<biomeVars, noiseVars, player>>

\* Lines 336-338: a path with 30% overlap or more is discarded.
DiscardPath ==
    /\ pc = "traced"
    /\ TraceResult(path) # <<>>
    /\ ~OverlapAllowed(Overlap(TraceResult(path), river_cells), Len(TraceResult(path)))
    /\ UNCHANGED <<river_paths, river_cells>>
    /\ TraceReturned
    /\ UNCHANGED <<biomeVars, noiseVars, player>>

\* generate_map with the rivers applied right after generate_rivers returns,
\* on a grid that was not classified yet.
RiversDoneThenApply ==
    /\ pc = "next_source"
    /\ src_idx > Len(sources)
    /\ stage_log' = Append(stage_log, "rivers")
    /\ pc' = "apply"
    /\ UNCHANGED <<width, height, elevation_noise, climate_noise, elevation_map,
                   climate_map, map_data, outcome>>
    /\ UNCHANGED riverVars
    /\ UNCHANGED applyVars
    /\ UNCHANGED <<biomeVars, noiseVars, player>>

\* Line 342: every source is done, generate_rivers returns.
RiversDone ==
    /\ pc = "next_source"
    /\ src_idx > Len(sources)
    /\ stage_log' = Append(stage_log, "rivers")
    /\ pc' = "classify"
    /\ UNCHANGED <<width, height, elevation_noise, climate_noise, elevation_map,
                   climate_map, map_data, outcome>>
    /\ UNCHANGED riverVars
    /\ UNCHANGED applyVars
    /\ UNCHANGED <<biomeVars, noiseVars, player>>

\* Lines 437-454: the second pass classifies every cell.
Classify ==
    /\ pc = "classify"
    /\ map_data' = [c \in Cells |->
          LET bc == get_biome_and_color(elevation_map[c], climate_map[c],
                                        LocalSample(elevation_noise, c[1], c[2]))
          IN  [elevation |-> elevation_map[c], climate |-> climate_map[c],
               terrain_type |-> bc.terrain_type, color |-> bc.color]]
    /\ stage_log' = Append(stage_log, "classify")
    /\ pc' = "apply"
    /\ UNCHANGED <<width, height, elevation_noise, climate_noise, elevation_map,
                   climate_map, outcome>>
    /\ UNCHANGED riverVars
    /\ UNCHANGED applyVars
    /\ UNCHANGED <<biomeVars, noiseVars, player>>

\* apply_rivers_to_map 347-364: the first pass over the accepted paths.
ApplyWidths ==
    /\ pc = "apply"
    /\ river_widths' = FirstPass(river_paths, 1, <<>>)
    /\ applied_cells' = UNION {Range(river_paths[k]) : k \in 1..Len(river_paths)}
    /\ computed_widths' = [k \in 1..Len(river_paths) |->
                             [i \in 1..Len(river_paths[k]) |->
                                 PathWidth(Len(river_paths[k]), i - 1)]]
    /\ gaps_filled' = TRUE
    /\ new_river_cells' = {}
    /\ repair_rounds' = 0
    /\ pc' = "repair"
    /\ UNCHANGED mapVars_but_pc
    /\ UNCHANGED riverVars
    /\ UNCHANGED <<biomeVars, noiseVars, player>>

\* Lines 365-389: the loop test holds and one scan over the river cells runs.
\* A scan that finds no gap leaves gaps_filled false; the cells it finds wait
\* in new_river_cells for the loop of lines 392-401.
RepairScan ==
    /\ pc = "repair"
    /\ gaps_filled
    /\ new_river_cells' = ScanGaps(applied_cells)
    /\ gaps_filled' = (ScanGaps(applied_cells) # {})
    /\ repair_rounds' = repair_rounds + 1
    /\ pc' = IF ScanGaps(applied_cells) # {} THEN "repair_add" ELSE "repair"
    /\ UNCHANGED <<river_widths, applied_cells, computed_widths>>
    /\ UNCHANGED mapVars_but_pc
    /\ UNCHANGED riverVars
    /\ UNCHANGED <<biomeVars, noiseVars, player>>

\* Lines 392-401: one iteration of the loop over new_river_cells (a set: the
\* iteration order is free); the cell gets the mean width of the neighbours
\* that have one and joins the river cells.
RepairAdd ==
    /\ pc = "repair_add"
    /\ \E pos \in new_river_cells :
          /\ IF pos \notin applied_cells
             THEN /\ river_widths' =
                        IF GapWidth(pos, river_widths) # <<>>
                        THEN [c \in (DOMAIN river_widths) \cup {pos} |->
                                 IF c = pos THEN GapWidth(pos, river_widths)
                                 ELSE river_widths[c]]
                        ELSE river_widths
                  /\ applied_cells' = applied_cells \cup {pos}
             ELSE UNCHANGED <<river_widths, applied_cells>>
          /\ new_river_cells' = new_river_cells \ {pos}
          /\ pc' = IF new_river_cells \ {pos} = {} THEN "repair" ELSE "repair_add"
    /\ UNCHANGED <<gaps_filled, computed_widths, repair_rounds>>
    /\ UNCHANGED mapVars_but_pc
    /\ UNCHANGED riverVars
    /\ UNCHANGED <<biomeVars, noiseVars, player>>

\* Lines 365 and 403-410, then 459: the loop test fails, every river cell is
\* burnt into the map and generate_map returns the grid.  A river cell without
\* a width would make the lookup of line 407 raise KeyError: nothing is returned.
BurnIn ==
    /\ pc = "repair"
    /\ ~gaps_filled
    /\ IF applied_cells \subseteq DOMAIN river_widths
       THEN /\ map_data' = [c \in Cells |->
                              IF c \in applied_cells
                              THEN BurnCell(map_data[c], river_widths[c])
                              ELSE map_data[c]]
            /\ stage_log' = Append(stage_log, "burn")
            /\ outcome' = "grid"
       ELSE /\ outcome' = "KeyError"
            /\ UNCHANGED <<map_data, stage_log>>
    /\ pc' = "done"
    /\ UNCHANGED <<width, height, elevation_noise, climate_noise, elevation_map, climate_map>>
    /\ UNCHANGED riverVars
    /\ UNCHANGED applyVars
    /\ UNCHANGED <<biomeVars, noiseVars, player>>

Next ==
    \/ BuildFields
    \/ FindSources
    \/ StartTrace
    \/ SkipSource
    \/ TraceStep
    \/ TraceDeadEnd
    \/ DropShort
    \/ AcceptPath
    \/ DiscardPath
    \/ RiversDone
    \/ Classify
    \/ ApplyWidths
    \/ RepairScan
    \/ RepairAdd
    \/ BurnIn

Spec == Init /\ [][Next]_vars

(***************************************************************************)
(* get_biome_type on its own: the arguments are drawn from the hundredths  *)
(* between -BiomeMargin/100 and 1 + BiomeMargin/100, and the call is made. *)
(***************************************************************************)
BiomeMargin == 5
BiomeInputs == (0 - BiomeMargin)..(100 + BiomeMargin)

\* No generate_map is running.
pipelineIdle ==
    /\ width = 0 /\ height = 0
    /\ elevation_noise = 1 /\ climate_noise = 1
    /\ pc = "idle"
    /\ elevation_map = <<>> /\ climate_map = <<>> /\ map_data = <<>>
    /\ outcome = "none"
    /\ stage_log = <<>>
    /\ riverIdle
    /\ applyIdle

InitBiome ==
    /\ bio_elevation \in BiomeInputs
    /\ bio_climate \in BiomeInputs
    /\ bio_result = "none"
    /\ pipelineIdle
    /\ noiseIdle
    /\ playerIdle

CallBiome ==
    /\ bio_result = "none"
    /\ bio_result' = get_biome_type(bio_elevation, bio_climate)
    /\ UNCHANGED <<bio_elevation, bio_climate>>
    /\ UNCHANGED <<mapVars, riverVars, applyVars, noiseVars, player>>

NextBiome == CallBiome

SpecBiome == InitBiome /\ [][NextBiome]_vars

(***************************************************************************)
(* SimplexNoise (src/simplex_noise.py) and the first pass of generate_map. *)
(* The program computes in floating point; here a real is an integer       *)
(* number of 1/Unit, and every product is floored back to that grid.       *)
(* Python's module-level random generator is a deterministic generator     *)
(* with one shared state: random.seed sets the state, every draw advances  *)
(* it.  It is modelled by a linear congruential generator.                 *)
(***************************************************************************)
MaxSeed == 2
MaxDraws == 1
NoiseW == 2
NoiseH == 2

PermSize == 256
Unit == 2 ^ 10

Generators == {1, 2}
NoSeed == <<>>
SeedInputs == {NoSeed} \cup {<<n>> : n \in 1..MaxSeed}
NoiseConfigs == {<<NoiseW, NoiseH, 1>>, <<NoiseW, NoiseH, 20>>}

RngModulus == 65537
RngNext(state) == (state * 75 + 74) % RngModulus
\* random.seed(n): the state is a function of n alone.
RngSeed(n) == (n * 7919 + 12345) % RngModulus
\* One draw below n: the value drawn and the state after it.
RngBelow(state, n) == [value |-> (RngNext(state) \div 7) % n, state |-> RngNext(state)]

\* Lines 7-8: an explicit seed resets the shared generator, None leaves it alone.
seed_rng_ignored(seed, state) == state
seed_rng(seed, state) == IF seed # NoSeed THEN RngSeed(seed[1]) ELSE state

\* random.shuffle(x): for i from len(x)-1 down to 1, swap x[i] with x[j] for a
\* drawn j <= i.  Positions are 0-based in the program, 1-based here.
ShuffleStep(r, i) ==
    LET d == RngBelow(r.state, i + 1)
        j == d.value
    IN  [perm |-> [r.perm EXCEPT ![i + 1] = r.perm[j + 1], ![j + 1] = r.perm[i + 1]],
         state |-> d.state]

\* The iterations i = hi, hi - 1, ..., lo of that loop, in this order.  The
\* range is halved, and the first half is evaluated before the second half
\* starts, so that the evaluation stays shallow.
RECURSIVE ShuffleFrom(_, _, _)
ShuffleFrom(r, hi, lo) ==
    IF hi < lo THEN r
    ELSE IF hi = lo THEN ShuffleStep(r, hi)
    ELSE LET mid == (hi + lo) \div 2
             first == ShuffleFrom(r, hi, mid + 1)
         IN  IF first.state \in Nat THEN ShuffleFrom(first, mid, lo) ELSE first

SimplexNoiseInitSingle(seed, state) ==
    LET sh == ShuffleFrom([perm |-> [k \in 1..PermSize |-> k - 1],
                           state |-> seed_rng(seed, state)], PermSize - 1, 1)
    IN  [perm |-> sh.perm, state |-> sh.state]

\* Lines 18-20: list(range(256)), shuffled, then doubled.
SimplexNoiseInit(seed, state) ==
    LET sh == ShuffleFrom([perm |-> [k \in 1..PermSize |-> k - 1],
                           state |-> seed_rng(seed, state)], PermSize - 1, 1)
    IN  [perm |-> sh.perm \o sh.perm, state |-> sh.state]

grad2 ==
    << <<1, 1>>, <<-1, 1>>, <<1, -1>>, <<-1, -1>>,
       <<1, 0>>, <<-1, 0>>, <<1, 0>>, <<-1, 0>>,
       <<0, 1>>, <<0, -1>>, <<0, 1>>, <<0, -1>> >>

\* 0.5 * (sqrt(3) - 1) and (3 - sqrt(3)) / 6, in 1/Unit.
F2 == (366025 * Unit) \div 1000000
G2 == (211325 * Unit) \div 1000000

dot2d(g, x, y) == g[1] * x + g[2] * y

\* Lines 67-70: the contribution of one corner, in 1/Unit^2.
Corner(g, x, y) ==
    LET t == (Unit \div 2) - PyFloor(x * x + y * y, Unit)
        tt == PyFloor(t * t, Unit)
    IN  IF t >= 0 THEN PyFloor(tt * tt * dot2d(g, x, y), Unit) ELSE 0

\* The permutation table entry at the 0-based index k.
PermAt(perm, k) == perm[k + 1]

\* noise(xin, yin), lines 30-84, with xin, yin and the result in 1/Unit.
noise(perm, xin, yin) ==
    LET s == PyFloor((xin + yin) * F2, Unit)
        i == PyFloor(xin + s, Unit)
        j == PyFloor(yin + s, Unit)
        t == (i + j) * G2
        x0 == xin - (i * Unit - t)
        y0 == yin - (j * Unit - t)
        i1 == IF x0 > y0 THEN 1 ELSE 0
        j1 == IF x0 > y0 THEN 0 ELSE 1
        x1 == x0 - i1 * Unit + G2
        y1 == y0 - j1 * Unit + G2
        x2 == x0 - Unit + 2 * G2
        y2 == y0 - Unit + 2 * G2
        ii == i % 256
        jj == j % 256
        gi0 == PermAt(perm, (ii + PermAt(perm, jj)) % 256) % 12
        gi1 == PermAt(perm, (ii + i1 + PermAt(perm, jj + j1)) % 256) % 12
        gi2 == PermAt(perm, (ii + 1 + PermAt(perm, jj + 1)) % 256) % 12
    IN  PyFloor(70 * (Corner(grad2[gi0 + 1], x0, y0) + Corner(grad2[gi1 + 1], x1, y1)
                      + Corner(grad2[gi2 + 1], x2, y2)), Unit)

normalized_noise(perm, x, y) == PyFloor(noise(perm, x, y) + Unit, 2)

\* The loop of smooth_noise from octave k on: <<value, max_value>>.
RECURSIVE Octaves(_, _, _, _, _)
Octaves(perm, x, y, k, octaves) ==
    IF k >= octaves THEN <<0, 0>>
    ELSE LET amplitude == Unit \div (2 ^ k)
             frequency == 2 ^ k
             rest == Octaves(perm, x, y, k + 1, octaves)
         IN  <<PyFloor(normalized_noise(perm, x * frequency, y * frequency) * amplitude,
                       Unit) + rest[1],
               amplitude + rest[2]>>

smooth_noise(x, y, perm, octaves) ==
    LET r == Octaves(perm, x, y, 0, octaves)
    IN  PyFloor(r[1] * Unit, r[2])

\* generate_map 415-432: both fields of a w x h grid, from the two tables.
GenerateFieldsOf(cfg, perms) ==
    [elevation |-> [c \in CellsOf(cfg[1], cfg[2]) |->
                       smooth_noise(PyFloor(c[1] * Unit, cfg[3]),
                                    PyFloor(c[2] * Unit, cfg[3]), perms[1], 4)],
     climate |-> [c \in CellsOf(cfg[1], cfg[2]) |->
                       smooth_noise(PyFloor(c[1] * Unit, 2 * cfg[3]),
                                    PyFloor(c[2] * Unit, 2 * cfg[3]), perms[2], 2)]]

InitNoise ==
    /\ rng = 0
    /\ draws = 0
    /\ gen_pc = [g \in Generators |-> "new"]
    /\ gen_seed = [g \in Generators |-> <<NoSeed, NoSeed>>]
    /\ gen_perm = [g \in Generators |-> << <<>>, <<>> >>]
    /\ gen_cfg \in [Generators -> NoiseConfigs]
    /\ gen_fields = [g \in Generators |-> <<>>]
    /\ pipelineIdle
    /\ biomeIdle
    /\ playerIdle

\* The elevation noise source of generator g is constructed.  MapGenerator's
\* own call (line 13) passes no seed; a caller that wants a reproducible map
\* builds the source with SimplexNoise(seed).  Generators are constructed one
\* after the other: the program has a single thread.
ConstructElevationNoise(g) ==
    /\ gen_pc[g] = "new"
    /\ \A h \in Generators : h < g => gen_pc[h] \in {"constructed", "generated"}
    /\ \E seed \in SeedInputs :
          LET built == SimplexNoiseInit(seed, rng)
          IN  /\ gen_perm' = [gen_perm EXCEPT ![g][1] = built.perm]
              /\ gen_seed' = [gen_seed EXCEPT ![g][1] = seed]
              /\ rng' = built.state
    /\ gen_pc' = [gen_pc EXCEPT ![g] = "elevation"]
    /\ UNCHANGED <<draws, gen_cfg, gen_fields>>
    /\ UNCHANGED <<mapVars, riverVars, applyVars, biomeVars, player>>

\* The climate noise source of generator g is constructed (line 14).
ConstructClimateNoise(g) ==
    /\ gen_pc[g] = "elevation"
    /\ \E seed \in SeedInputs :
          LET built == SimplexNoiseInit(seed, rng)
          IN  /\ gen_perm' = [gen_perm EXCEPT ![g][2] = built.perm]
              /\ gen_seed' = [gen_seed EXCEPT ![g][2] = seed]
              /\ rng' = built.state
    /\ gen_pc' = [gen_pc EXCEPT ![g] = "constructed"]
    /\ UNCHANGED <<draws, gen_cfg, gen_fields>>
    /\ UNCHANGED <<mapVars, riverVars, applyVars, biomeVars, player>>

\* The first pass of generate_map on generator g.
GenerateFields(g) ==
    /\ gen_pc[g] = "constructed"
    /\ gen_fields' = [gen_fields EXCEPT ![g] = GenerateFieldsOf(gen_cfg[g], gen_perm[g])]
    /\ gen_pc' = [gen_pc EXCEPT ![g] = "generated"]
    /\ UNCHANGED <<rng, draws, gen_seed, gen_perm, gen_cfg>>
    /\ UNCHANGED <<mapVars, riverVars, applyVars, biomeVars, player>>

\* Other code draws from the shared generator: random.random() in
\* find_river_sources, random.choice in find_flow_direction.
RandomDraw ==
    /\ draws < MaxDraws
    /\ rng' = RngNext(rng)
    /\ draws' = draws + 1
    /\ UNCHANGED <<gen_pc, gen_seed, gen_perm, gen_cfg, gen_fields>>
    /\ UNCHANGED <<mapVars, riverVars, applyVars, biomeVars, player>>

NextNoise ==
    \/ \E g \in Generators : ConstructElevationNoise(g)
    \/ \E g \in Generators : ConstructClimateNoise(g)
    \/ \E g \in Generators : GenerateFields(g)
    \/ RandomDraw

SpecNoise == InitNoise /\ [][NextNoise]_vars

(***************************************************************************)
(* The terrain tables of the game (src/game_engine.py 337-374; the copies  *)
(* in src/game_logic.py 174-211 have the same entries).  Encounter chances *)
(* are in hundredths.                                                      *)
(***************************************************************************)
costs ==
    [plains |-> 1, forest |-> 2, hills |-> 2, mountains |-> 3, desert |-> 2,
     jungle |-> 3, tundra |-> 2, beach |-> 1, shallow_water |-> 4,
     deep_ocean |-> 10, snow_peaks |-> 5]

\* costs.get(terrain_type, 1)
get_terrain_movement_cost(terrain_type) ==
    IF terrain_type \in DOMAIN costs THEN costs[terrain_type] ELSE 1

impassable == <<"deep_ocean">>

can_move_to_terrain(terrain_type) == terrain_type \notin Range(impassable)

chances ==
    [plains |-> 30, forest |-> 40, hills |-> 35, mountains |-> 25, desert |-> 30,
     jungle |-> 45, tundra |-> 20, beach |-> 10, shallow_water |-> 10,
     deep_ocean |-> 5, snow_peaks |-> 15]

\* chances.get(terrain_type, 0.2)
get_encounter_chance(terrain_type) ==
    IF terrain_type \in DOMAIN chances THEN chances[terrain_type] ELSE 20

(***************************************************************************)
(* trace_river_path called directly on a hand-set elevation field: the     *)
(* specification SpecTrace.  The method is public and takes the field as   *)
(* an argument, so a caller may trace from any cell of any field; the      *)
(* generator only supplies its size and the constants.                     *)
(***************************************************************************)
PlateauSize == 5
SlopeSize == 3
MaxCoef == 3
HashLevels == 4

\* The elevations (hundredths) the hand-set fields are built from: levels on
\* both sides of water_level and of the source threshold.
TraceLevels ==
    [plateau |-> 75, lows |-> {60, 20},
     slope |-> {90, 80, 60, 50, 25, 10},
     bases |-> {28, 29, 60}]

\* A plateau with a single lower cell.
PlateauField(n, low, e) ==
    [c \in CellsOf(n, n) |-> IF c = low THEN e ELSE TraceLevels.plateau]

\* The elevation depends on the column only.
SlopeField(n, col) == [c \in CellsOf(n, n) |-> col[c[1] + 1]]

StrictlyDecreasing(col) == \A i \in 1..(Len(col) - 1) : col[i] > col[i + 1]

\* A family of terraced fields with small plateaus, slopes and pits.
TerraceField(n, base, a, b, c) ==
    [p \in CellsOf(n, n) |->
        base + ((a * p[1] + b * p[2] + c * p[1] * p[2]) % HashLevels)]

TraceFields ==
    {<<PlateauSize, PlateauField(PlateauSize, low, e)>> :
        low \in CellsOf(PlateauSize, PlateauSize), e \in TraceLevels.lows}
    \cup {<<SlopeSize, SlopeField(SlopeSize, col)>> :
             col \in {s \in [1..SlopeSize -> TraceLevels.slope] : StrictlyDecreasing(s)}}
    \cup {<<PlateauSize, TerraceField(PlateauSize, base, a, b, c)>> :
             base \in TraceLevels.bases, a \in 1..MaxCoef, b \in 0..MaxCoef,
             c \in 0..MaxCoef}

\* MapGenerator(n, n) is constructed, a field is set by hand and
\* trace_river_path(start_x, start_y, elevation_map) is about to be called.
InitTrace ==
    /\ \E f \in TraceFields :
          /\ width = f[1] /\ height = f[1]
          /\ elevation_map = f[2]
          /\ \E s \in CellsOf(f[1], f[1]) : sources = <<s>>
    /\ elevation_noise = 1 /\ climate_noise = 1
    /\ climate_map = <<>> /\ map_data = <<>>
    /\ outcome = "none"
    /\ stage_log = <<>>
    /\ pc = "call_trace"
    /\ src_idx = 1
    /\ river_paths = <<>> /\ river_cells = {}
    /\ path = <<>> /\ visited = {}
    /\ current = NoCell /\ last_elevation = 0
    /\ trace_end = "none"
    /\ applyIdle
    /\ biomeIdle
    /\ noiseIdle
    /\ playerIdle

\* trace_river_path 242-245: the locals of the call.
CallTrace ==
    /\ pc = "call_trace"
    /\ path' = <<sources[src_idx]>>
    /\ visited' = {sources[src_idx]}
    /\ current' = sources[src_idx]
    /\ last_elevation' = elevation_map[sources[src_idx]]
    /\ trace_end' = "none"
    /\ pc' = "trace"
    /\ UNCHANGED mapVars_but_pc
    /\ UNCHANGED <<sources, src_idx, river_paths, river_cells>>
    /\ UNCHANGED applyVars
    /\ UNCHANGED <<biomeVars, noiseVars, player>>

NextTrace ==
    \/ CallTrace
    \/ TraceStep
    \/ TraceDeadEnd

SpecTrace == InitTrace /\ [][NextTrace]_vars

(***************************************************************************)
(* apply_rivers_to_map called directly: the specification SpecApply.  The  *)
(* method is public and takes the grid and the paths as arguments, so a    *)
(* caller may hand it any list of paths; here one or two straight runs of  *)
(* cells on a classified terraced grid, in both orders.                    *)
(***************************************************************************)
ApplySize == 4
MaxPathLen == 3

ApplyDirections == {<<1, 0>>, <<0, 1>>, <<1, 1>>, <<1, -1>>}

\* The run of n cells from s in direction d.
LinePath(s, d, n) == [i \in 1..n |-> <<s[1] + (i - 1) * d[1], s[2] + (i - 1) * d[2]>>]

ApplyPaths ==
    {p \in {LinePath(s, d, n) : s \in CellsOf(ApplySize, ApplySize),
                                d \in ApplyDirections, n \in 2..MaxPathLen} :
        Range(p) \subseteq CellsOf(ApplySize, ApplySize)}

\* The second path is a diagonal pair.
ApplyInputs ==
    {<<p>> : p \in ApplyPaths}
    \cup UNION {{<<p, q>>, <<q, p>>} :
                  p \in ApplyPaths,
                  q \in {r \in ApplyPaths : Len(r) = 2 /\ r[1][1] # r[2][1] /\ r[1][2] # r[2][2]}}

\* MapGenerator(n, n) was constructed, the grid was classified as lines
\* 437-454 do, and apply_rivers_to_map(map_data, river_paths) is about to run.
InitApply ==
    /\ width = ApplySize /\ height = ApplySize
    /\ elevation_noise = 1 /\ climate_noise = 1
    /\ elevation_map = TerraceField(ApplySize, TraceLevels.plateau, 1, 2, 1)
    /\ climate_map = [c \in CellsOf(ApplySize, ApplySize) |-> ClimateSample(1, c[1], c[2])]
    /\ map_data = [c \in CellsOf(ApplySize, ApplySize) |->
          LET bc == get_biome_and_color(elevation_map[c], climate_map[c],
                                        LocalSample(elevation_noise, c[1], c[2]))
          IN  [elevation |-> elevation_map[c], climate |-> climate_map[c],
               terrain_type |-> bc.terrain_type, color |-> bc.color]]
    /\ outcome = "none"
    /\ stage_log = <<"classify">>
    /\ pc = "apply"
    /\ river_paths \in ApplyInputs
    /\ sources = <<>> /\ src_idx = 1
    /\ river_cells = {}
    /\ path = <<>> /\ visited = {}
    /\ current = NoCell /\ last_elevation = 0
    /\ trace_end = "none"
    /\ applyIdle
    /\ biomeIdle
    /\ noiseIdle
    /\ playerIdle

NextApply ==
    \/ ApplyWidths
    \/ RepairScan
    \/ RepairAdd
    \/ BurnIn

SpecApply == InitApply /\ [][NextApply]_vars

(***************************************************************************)
(* The player of the game: the credits (src/models.py 85-98) and the       *)
(* movement allowance of a turn (src/models.py 110-179), driven by the     *)
(* request handlers of src/app.py: the specification SpecPlayer.  The      *)
(* client moves by half hexes, so positions, distances and movement points *)
(* are counted in halves.  The mechs on sale come from data/mechs.json;    *)
(* two of them stand for the catalogue.                                    *)
(***************************************************************************)
MaxCredits == 1000
MaxTurns == 2
MaxCoord == 1
MaxMechs == 2
MaxTurnCost == 4

MechSamples ==
    [Locust   |-> [value |-> 400, walking |-> 1],
     Commando |-> [value |-> 800, walking |-> 2]]

SpendAmounts == {-200, 200, MaxCredits + 200}

\* The column defaults of Player (models.py 22-37) with the two fields
\* create_character sets (app.py 72-74).  turn_cost and turn_allowance record
\* the cost of the successful moves of the current turn and the allowance it
\* started with; returned is the result of the last spend_credits call.
NewPlayer(c) ==
    [credits |-> c, map_x |-> 32, map_y |-> 32, map_x_frac |-> 0, map_y_frac |-> 0,
     movement_points_remaining |-> 0, turn_number |-> 1, active_mech_id |-> 0,
     mechs |-> <<>>, turn_cost |-> 0, turn_allowance |-> 0,
     returned |-> "none"]

can_afford(p, cost) == p.credits >= cost

spend_credits_unchecked(p, amount) ==
    [p EXCEPT !.credits = @ - amount, !.returned = "True"]

spend_credits(p, amount) ==
    IF can_afford(p, amount)
    THEN [p EXCEPT !.credits = @ - amount, !.returned = "True"]
    ELSE [p EXCEPT !.returned = "False"]

earn_credits(p, amount) == [p EXCEPT !.credits = @ + amount]

get_exact_position(p) ==
    [x |-> 2 * p.map_x + p.map_x_frac, y |-> 2 * p.map_y + p.map_y_frac]

\* int() of a position given in halves truncates toward zero.
set_exact_position(p, x, y) ==
    LET IntPart(h) == IF h >= 0 THEN h \div 2 ELSE -((-h) \div 2)
    IN  [p EXCEPT !.map_x = IntPart(x), !.map_y = IntPart(y),
                  !.map_x_frac = x - 2 * IntPart(x),
                  !.map_y_frac = y - 2 * IntPart(y)]

\* The id of the active mech, 0 for None.  Mech ids are the positions in
\* p.mechs; no handler of this specification damages a mech, so the first
\* operational mech is the first one.
get_active_mech(p) ==
    IF p.active_mech_id # 0 THEN p.active_mech_id
    ELSE IF p.mechs # <<>> THEN 1
    ELSE 0

get_movement_points(p) ==
    IF get_active_mech(p) = 0 THEN 0
    ELSE 2 * MechSamples[p.mechs[get_active_mech(p)]].walking

start_turn(p) ==
    [p EXCEPT !.movement_points_remaining = get_movement_points(p),
              !.turn_number = @ + 1]

DistanceTo(p, target_x, target_y) ==
    Abs(target_x - get_exact_position(p).x) + Abs(target_y - get_exact_position(p).y)

can_move_to(p, target_x, target_y, terrain_cost) ==
    DistanceTo(p, target_x, target_y) * terrain_cost <= p.movement_points_remaining

move_to(p, target_x, target_y, terrain_cost) ==
    IF ~can_move_to(p, target_x, target_y, terrain_cost)
    THEN p
    ELSE [set_exact_position(p, target_x, target_y) EXCEPT
              !.movement_points_remaining =
                     @ - DistanceTo(p, target_x, target_y) * terrain_cost]

InitPlayer ==
    /\ player \in {NewPlayer(c) : c \in {0, 1000}}
    /\ pipelineIdle
    /\ biomeIdle
    /\ noiseIdle

\* Player.earn_credits, as resolve_encounter calls it on a victory.
EarnCredits(amount) ==
    /\ ~playerIdle
    /\ player.credits + amount <= MaxCredits
    /\ player' = earn_credits(player, amount)
    /\ UNCHANGED <<mapVars, riverVars, applyVars, biomeVars, noiseVars>>

\* Player.spend_credits, as resolve_encounter calls it on a defeat.
SpendCredits(amount) ==
    /\ ~playerIdle
    /\ player.credits - amount <= MaxCredits
    /\ player' = spend_credits(player, amount)
    /\ UNCHANGED <<mapVars, riverVars, applyVars, biomeVars, noiseVars>>

\* app.py move_player (133-203).  A refused request changes nothing.
MovePlayer(target_x, target_y, terrain_type) ==
    /\ ~playerIdle
    /\ LET terrain_cost == get_terrain_movement_cost(terrain_type)
           move_cost == DistanceTo(player, target_x, target_y) * terrain_cost
       IN  /\ player.turn_cost + move_cost <= MaxTurnCost
           /\ player' =
                IF get_active_mech(player) = 0 \/ ~can_move_to_terrain(terrain_type)
                   \/ ~can_move_to(player, target_x, target_y, terrain_cost)
                THEN player
                ELSE [move_to(player, target_x, target_y, terrain_cost) EXCEPT
                          !.turn_cost = @ + move_cost]
    /\ UNCHANGED <<mapVars, riverVars, applyVars, biomeVars, noiseVars>>

\* app.py end_turn (205-225).
EndTurn ==
    /\ ~playerIdle
    /\ player.turn_number < MaxTurns
    /\ player' = [start_turn(player) EXCEPT
                      !.turn_cost = 0,
                      !.turn_allowance = get_movement_points(player)]
    /\ UNCHANGED <<mapVars, riverVars, applyVars, biomeVars, noiseVars>>

\* app.py set_active_mech (227-262).  mech_id 0 is a request without an id.
SetActiveMech(mech_id) ==
    /\ ~playerIdle
    /\ player' =
         IF mech_id = 0 \/ mech_id \notin DOMAIN player.mechs
         THEN player
         ELSE [player EXCEPT
                   !.active_mech_id = mech_id,
                   !.movement_points_remaining =
                          get_movement_points([player EXCEPT !.active_mech_id = mech_id])]
    /\ UNCHANGED <<mapVars, riverVars, applyVars, biomeVars, noiseVars>>

\* app.py purchase_mech (346-425).
PurchaseMech(mech_name) ==
    /\ ~playerIdle
    /\ Len(player.mechs) < MaxMechs
    /\ player' =
         IF mech_name \notin DOMAIN MechSamples
            \/ ~can_afford(player, MechSamples[mech_name].value)
         THEN player
         ELSE LET paid == spend_credits(player, MechSamples[mech_name].value)
                  bought == [paid EXCEPT !.mechs = Append(@, mech_name)]
              IN  IF player.active_mech_id = 0
                  THEN LET first == [bought EXCEPT !.active_mech_id = Len(bought.mechs)]
                       IN  [first EXCEPT
                               !.movement_points_remaining = get_movement_points(first)]
                  ELSE bought
    /\ UNCHANGED <<mapVars, riverVars, applyVars, biomeVars, noiseVars>>

NextPlayer ==
    \/ \E amount \in {0, 600} : EarnCredits(amount)
    \/ \E amount \in SpendAmounts : SpendCredits(amount)
    \* targets around the starting hex; terrain of cost 1, of cost 2,
    \* impassable, and one that is not in the table
    \/ \E dx \in (-1)..MaxCoord, dy \in 0..1,
          terrain_type \in {"plains", "forest", "deep_ocean", "road"} :
          MovePlayer(2 * NewPlayer(0).map_x + dx, 2 * NewPlayer(0).map_y + dy,
                     terrain_type)
    \/ EndTurn
    \/ \E mech_id \in 0..MaxMechs : SetActiveMech(mech_id)
    \/ \E mech_name \in DOMAIN MechSamples \cup {"Unlisted"} : PurchaseMech(mech_name)

SpecPlayer == InitPlayer /\ [][NextPlayer]_vars

(***************************************************************************)
(* Properties of generate_map, checked under Spec.                         *)
(***************************************************************************)
TerrainCategories ==
    {"deep_ocean", "shallow_water", "beach", "tundra", "desert", "plains",
     "forest", "jungle", "hills", "mountains", "snow_peaks", "river"}

Returned == pc = "done" /\ outcome = "grid"

\* The union of the cells of the first k accepted paths.
ClaimedBy(k) == UNION {Range(river_paths[j]) : j \in 1..k}

\* The last cell of p has no neighbour outside p of lower or equal elevation.
DeadEnd(p) ==
    LET last == p[Len(p)]
    IN  \A n \in Range(get_neighbors(last[1], last[2])) :
           n \in Range(p) \/ elevation_map[n] > elevation_map[last]

\* Two river cells are diagonal neighbours and neither elbow is a river cell.
GapAt(c, d, cells) ==
    /\ <<c[1] + d[1], c[2] + d[2]>> \in cells
    /\ <<c[1] + d[1], c[2]>> \notin cells
    /\ <<c[1], c[2] + d[2]>> \notin cells

HasGap(cells) == \E c \in cells, d \in Range(DiagonalOffsets) : GapAt(c, d, cells)

\* C1: in the returned grid every cell's terrain_type is one of the twelve
\* categories and its colour is an element of that category's palette (the
\* river palette for a river cell).
C1_TerrainAndColor ==
    Returned =>
        \A c \in Cells :
            /\ map_data[c].terrain_type \in TerrainCategories
            /\ map_data[c].color \in Range(Palette(map_data[c].terrain_type))

\* C1 witness: a returned grid with river cells, water cells and land cells,
\* one of them coloured with the last entry of its palette by the clamp.
C1_Witness ==
    /\ Returned
    /\ \E c \in Cells : map_data[c].terrain_type = "river"
    /\ \E c \in Cells : map_data[c].terrain_type = "deep_ocean"
    /\ \E c \in Cells :
          /\ map_data[c].terrain_type \notin {"river", "deep_ocean", "shallow_water"}
          /\ LocalSample(elevation_noise, c[1], c[2]) = 100
          /\ map_data[c].color =
                Palette(map_data[c].terrain_type)[Len(Palette(map_data[c].terrain_type))]

\* C3: every accepted path has at least min_river_length cells, begins at one
\* of the sources, and its last cell is below the water level or is a dead
\* end; a finished trace begins at the source being traced, and one with fewer
\* than min_river_length cells comes back empty with the accepted paths as
\* they were.
C3_AcceptedPaths ==
    /\ \A k \in 1..Len(river_paths) :
          LET p == river_paths[k]
          IN  /\ Len(p) >= min_river_length
              /\ p[1] \in Range(sources)
              /\ \/ elevation_map[p[Len(p)]] < water_level
                 \/ DeadEnd(p)
    /\ pc = "traced" =>
          /\ path[1] = sources[src_idx]
          /\ trace_end = "water" => elevation_map[path[Len(path)]] < water_level
          /\ trace_end = "dead_end" => DeadEnd(path)
          /\ Len(path) < min_river_length => TraceResult(path) = <<>>
    /\ outcome \in {"none", "grid"}

\* C3 witness: a trace of fewer than min_river_length cells has just ended at
\* a dead end, after another path was accepted.
C3_Witness ==
    /\ pc = "traced"
    /\ Len(path) < min_river_length
    /\ trace_end = "dead_end"
    /\ river_paths # <<>>

\* C4: for every accepted path, the number of its cells that were claimed by
\* the paths accepted before it is strictly less than 30% of its length, and
\* the claimed cells are exactly the cells of the accepted paths; a traced
\* path at or above that share leaves both unchanged.
C4_OverlapBound ==
    /\ [](/\ \A k \in 1..Len(river_paths) :
               10 * Overlap(river_paths[k], ClaimedBy(k - 1)) < 3 * Len(river_paths[k])
          /\ river_cells = ClaimedBy(Len(river_paths)))
    /\ [][(/\ pc = "traced"
           /\ TraceResult(path) # <<>>
           /\ 10 * Overlap(path, river_cells) >= 3 * Len(path))
          => (river_paths' = river_paths /\ river_cells' = river_cells)]_vars

\* C4 witness: a second path was accepted although it shares a cell with the
\* first one.
C4_Witness ==
    \E k \in 1..Len(river_paths) : Overlap(river_paths[k], ClaimedBy(k - 1)) > 0

\* C5: when the repair loop has finished, any two river cells that are
\* diagonal neighbours have at least one of their two elbow cells among the
\* river cells.
C5_RepairFixedPoint ==
    (pc = "done" \/ (pc = "repair" /\ ~gaps_filled)) => ~HasGap(applied_cells)

\* C5 witness: the loop finished after two scans that inserted cells, on
\* paths that had a gap.
C5_Witness ==
    /\ pc = "done"
    /\ repair_rounds >= 3
    /\ HasGap(river_cells)
    /\ applied_cells # river_cells

\* C6: in the returned grid every cell of the final river set is a river cell
\* whose colour is the river palette entry at index min(floor(width), 3), an
\* index of the 4-colour palette.
C6_BurnIn ==
    Returned =>
        \A c \in applied_cells :
            /\ c \in DOMAIN river_widths
            /\ LET idx == Min(PyFloor(river_widths[c][1], river_widths[c][2]), 3)
               IN  /\ idx \in 0..(Len(river) - 1)
                   /\ map_data[c].color = river[idx + 1]
            /\ map_data[c].terrain_type = "river"

\* C6 witness: a returned grid with a gap-fill cell, and one with a river
\* cell of width 1 or more.
C6_Witness ==
    /\ Returned
    /\ \/ \E c \in applied_cells : c \notin river_cells /\ RatLess(Rat(1, 2), river_widths[c])
       \/ \E c \in applied_cells : RatLeq(Rat(1, 1), river_widths[c])
    /\ \E c \in applied_cells : map_data[c].color = river[2]

\* C7: the widths computed along an accepted path, before the maximum over
\* paths is taken, never decrease from the source to the terminus.
C7_WidthsNonDecreasing ==
    \A k \in 1..Len(computed_widths) :
        \A i \in 1..Len(computed_widths[k]) : \A j \in i..Len(computed_widths[k]) :
            RatLeq(computed_widths[k][i], computed_widths[k][j])

\* C7 witness: the first pass has run over two accepted paths.
C7_Witness ==
    /\ Len(computed_widths) = 2
    /\ \A k \in 1..2 : Len(computed_widths[k]) = Len(river_paths[k])

Classified == width > 0 /\ height > 0 => DOMAIN map_data = Cells
FieldsBuilt == DOMAIN elevation_map = Cells /\ DOMAIN climate_map = Cells

\* C9 as stated: fields, then classification, then rivers, then burn-in; no
\* path is traced before every cell is classified.
C9_ClassifyBeforeRivers ==
    /\ Returned => stage_log = <<"fields", "classify", "rivers", "burn">>
    /\ pc \in {"trace", "traced"} => (Classified /\ map_data # <<>>)

\* C9 amended: fields, then rivers, then classification, then burn-in: the
\* paths are traced on the completed fields before any cell is classified,
\* the rivers are applied to a classified grid, and burn-in is the last stage.
C9_StageOrder ==
    /\ Returned => stage_log = <<"fields", "rivers", "classify", "burn">>
    /\ pc # "start" => FieldsBuilt
    /\ pc \in {"find_sources", "next_source", "trace", "traced"} => map_data = <<>>
    /\ pc \in {"apply", "repair", "repair_add"} =>
          (Classified /\ stage_log = <<"fields", "rivers", "classify">>)
    /\ \A i \in 1..Len(stage_log) : stage_log[i] = "burn" => (i = Len(stage_log) /\ pc = "done")

\* C9 witness: a grid was returned with rivers burnt in.
C9_Witness ==
    /\ Returned
    /\ river_paths # <<>>
    /\ \E c \in Cells : map_data[c].terrain_type = "river"

\* C10 as stated: with width <= 0 or height <= 0 no grid is returned.
C10_NoGridForBadSize ==
    (width <= 0 \/ height <= 0) => outcome # "grid"


(***************************************************************************)
(* Properties of get_biome_type, checked under SpecBiome.                  *)
(***************************************************************************)
\* The decision table, with the climate bins read off the climate itself.
BiomeTable(elevation, climate) ==
    CASE elevation < 20 -> "deep_ocean"
      [] elevation >= 20 /\ elevation < 30 -> "shallow_water"
      [] elevation >= 30 /\ elevation < 35 -> "beach"
      [] elevation >= 85 -> "snow_peaks"
      [] elevation >= 75 /\ elevation < 85 -> "mountains"
      [] elevation >= 65 /\ elevation < 75 -> "hills"
      [] OTHER ->
           CASE climate >= 0 /\ climate < 20 -> "tundra"
             [] climate >= 20 /\ climate < 40 -> "desert"
             [] climate >= 40 /\ climate < 60 -> "plains"
             [] climate >= 60 /\ climate < 80 -> "forest"
             [] climate >= 80 /\ climate <= 100 -> "jungle"
             [] OTHER -> "outside the table"

\* C2: get_biome_type equals the first-match decision table (the elevation
\* bands first, then the climate bins [0,0.2) tundra, [0.2,0.4) desert,
\* [0.4,0.6) plains, [0.6,0.8) forest, [0.8,1.0] jungle): deep_ocean below 0.2
\* and snow_peaks from 0.85 whatever the climate, and never river.
C2_DecisionTable ==
    bio_result # "none" =>
        /\ (bio_elevation < 35 \/ bio_elevation >= 65 \/ bio_climate \in 0..100)
              => bio_result = BiomeTable(bio_elevation, bio_climate)
        /\ bio_elevation < 20 => bio_result = "deep_ocean"
        /\ bio_elevation >= 85 => bio_result = "snow_peaks"
        /\ bio_result \in TerrainCategories \ {"river"}

\* C2 witness: the call returned forest for a mid elevation and a climate in
\* the bin [0.6, 0.8) that is not a multiple of 0.2.
C2_Witness ==
    /\ bio_result = "forest"
    /\ bio_elevation = 50
    /\ bio_climate = 79

(***************************************************************************)
(* Properties of the noise sources and the fields, checked under SpecNoise.*)
(***************************************************************************)
Built(g, k) == gen_perm[g][k] # <<>>
ExplicitlySeeded(g) == NoSeed \notin Range(gen_seed[g])

\* C8: two generators with the same width, height and scale whose noise
\* sources were constructed with the same explicit seeds have identical
\* elevation and climate fields, whatever else drew from the shared random
\* generator; two sources built with the same explicit seed have the same
\* permutation table, and a table never changes once it is built.
C8_SeedDeterminism ==
    /\ [](\A g, h \in Generators :
            ( /\ gen_pc[g] = "generated" /\ gen_pc[h] = "generated"
              /\ gen_cfg[g] = gen_cfg[h]
              /\ gen_seed[g] = gen_seed[h]
              /\ ExplicitlySeeded(g) )
            => gen_fields[g] = gen_fields[h])
    /\ [](\A g, h \in Generators : \A k, m \in 1..2 :
            ( /\ Built(g, k) /\ Built(h, m)
              /\ gen_seed[g][k] = gen_seed[h][m]
              /\ gen_seed[g][k] # NoSeed )
            => gen_perm[g][k] = gen_perm[h][m])
    /\ [][\A g \in Generators : \A k \in 1..2 :
            Built(g, k) => gen_perm'[g][k] = gen_perm[g][k]]_vars

\* C8 witness: both generators have generated their fields from sources built
\* with the same explicit seeds, the elevation seed differing from the climate
\* seed, with a draw from the shared random generator in between; the
\* elevation field is not constant.
C8_Witness ==
    /\ gen_pc = [g \in Generators |-> "generated"]
    /\ gen_cfg[1] = gen_cfg[2]
    /\ gen_seed[1] = gen_seed[2]
    /\ ExplicitlySeeded(1)
    /\ gen_seed[1][1] # gen_seed[1][2]
    /\ draws > 0
    /\ gen_fields[1] = gen_fields[2]
    /\ \E c, d \in DOMAIN gen_fields[1].elevation :
          gen_fields[1].elevation[c] # gen_fields[1].elevation[d]

(***************************************************************************)
(* Properties of the terrain tables, checked under Spec on the grids that  *)
(* generate_map returns.                                                   *)
(***************************************************************************)
\* C11: the movement-cost table and the encounter-chance table each have an
\* explicit entry for every terrain category of a returned grid, river
\* included, and deep_ocean is impassable.
C11_TablesCoverTerrain ==
    Returned =>
        /\ \A c \in Cells :
              /\ map_data[c].terrain_type \in DOMAIN costs
              /\ map_data[c].terrain_type \in DOMAIN chances
        /\ ~can_move_to_terrain("deep_ocean")


(***************************************************************************)
(* Properties of trace_river_path and find_flow_direction, checked under   *)
(* SpecTrace (any start cell of the plateau, slope and terrace fields).    *)
(***************************************************************************)
\* The field is a plateau around one strictly lower cell.
IsLowCell(low) ==
    /\ low \in Cells
    /\ \A c \in Cells \ {low} :
          /\ elevation_map[c] > elevation_map[low]
          /\ \A d \in Cells \ {low} : elevation_map[c] = elevation_map[d]

IsPlateau == Cardinality(Cells) > 1 /\ \E low \in Cells : IsLowCell(low)

LowCell == CHOOSE low \in Cells : IsLowCell(low)

\* The walk of trace_river_path is over.
Traced == pc = "traced"

\* C12: on a plateau with a single strictly lower cell the walk from any
\* cell ends on the lower cell; it never meets a dead end on the plateau.
C12_PlateauReachesLow ==
    (Traced /\ IsPlateau) =>
        /\ path[Len(path)] = LowCell
        /\ trace_end = "dead_end" => current = LowCell

\* A walk of at least five cells across the plateau has ended on the lower cell.
C12_Witness ==
    /\ Traced /\ IsPlateau
    /\ path[1] # LowCell
    /\ Len(path) >= 5
    /\ path[Len(path)] = LowCell

\* The field falls strictly from each column to the next one on its right and
\* is level within a column.
IsSlope ==
    /\ width > 1 /\ height > 1
    /\ \A c, d \in Cells :
          /\ c[1] = d[1] => elevation_map[c] = elevation_map[d]
          /\ c[1] < d[1] => elevation_map[c] > elevation_map[d]

\* The first k cells of the top row, and the cells of the right-hand column
\* below the top row.
TopRow(k) == [i \in 1..k |-> <<i - 1, 0>>]
RightColumnBelowTop == [i \in 1..(height - 1) |-> <<width - 1, i>>]

\* The columns right of the start whose cells are below water_level.
WaterColumns == {x \in 1..(width - 1) : elevation_map[<<x, 0>>] < water_level}

IsDiagonalPair(a, b) == Abs(a[1] - b[1]) = 1 /\ Abs(a[2] - b[2]) = 1

\* C14: a traced path never holds the same cell twice, and the visited set
\* is exactly the set of its cells: every destination and every inserted
\* intermediate was a cell not yet in the path.
C14_NoCellTwice ==
    /\ \A i, j \in 1..Len(path) : i # j => path[i] # path[j]
    /\ visited = Range(path)

\* A finished walk of at least ten cells that holds an inserted intermediate
\* and took a step on level ground.
C14_Witness ==
    /\ Traced
    /\ Len(path) >= 10
    /\ \E i \in 1..(Len(path) - 2) :
          /\ IsDiagonalPair(path[i], path[i + 2])
          /\ IsOrthogonalStep(path[i + 1], path[i][1], path[i][2])
          /\ IsOrthogonalStep(path[i + 1], path[i + 2][1], path[i + 2][2])
    /\ \E i \in 1..(Len(path) - 1) : elevation_map[path[i]] = elevation_map[path[i + 1]]

\* The two elbow cells of the diagonal pair a, b.
Elbows(a, b) == {<<b[1], a[2]>>, <<a[1], b[2]>>}

NeighbourCells(a) ==
    {c \in Cells : c # a /\ Abs(c[1] - a[1]) <= 1 /\ Abs(c[2] - a[2]) <= 1}

\* The neighbours of a outside the set vis that are strictly lower than a.
LowerUnvisited(a, vis) ==
    {n \in NeighbourCells(a) \ vis : elevation_map[n] < elevation_map[a]}

\* C16: when the current cell has an unvisited strictly lower neighbour, the
\* step goes to an unvisited neighbour of the greatest drop, and to an
\* orthogonal one whenever an unvisited orthogonal neighbour has that drop.
C16_SteepestDescent ==
    [][(pc = "trace" /\ LowerUnvisited(current, visited) # {}) =>
          LET lower == LowerUnvisited(current, visited)
              n == path'[Len(path')]
          IN  /\ n \in lower
              /\ \A m \in lower : elevation_map[n] <= elevation_map[m]
              /\ (\E m \in lower :
                     /\ elevation_map[m] = elevation_map[n]
                     /\ IsOrthogonalStep(m, current[1], current[2]))
                 => IsOrthogonalStep(n, current[1], current[2])]_vars

\* A walk took an orthogonal step of the greatest drop although a diagonal
\* neighbour offered the same drop and a third neighbour a smaller one.
C16_Witness ==
    \E i \in 1..(Len(path) - 1) :
        LET a == path[i]
            b == path[i + 1]
            lower == LowerUnvisited(a, {path[j] : j \in 1..i})
        IN  /\ b \in lower
            /\ IsOrthogonalStep(b, a[1], a[2])
            /\ \A m \in lower : elevation_map[b] <= elevation_map[m]
            /\ \E d \in lower : IsDiagonalPair(a, d) /\ elevation_map[d] = elevation_map[b]
            /\ \E m \in lower : elevation_map[b] < elevation_map[m]

\* C17: every step of a walk goes to an in-grid neighbour of the current
\* cell, so at most one intermediate cell is appended before it: the
\* long-jump branch never runs.
C17_OneCellAtATime ==
    [][(pc = "trace" /\ path' # path) =>
          /\ path'[Len(path')] \in NeighbourCells(current)
          /\ Len(path') <= Len(path) + 2
          /\ Inserted(current[1], current[2], path'[Len(path')], visited, last_elevation)
                \in {<<>>, <<<<path'[Len(path')][1], current[2]>>>>,
                     <<<<current[1], path'[Len(path')][2]>>>>}]_vars

\* A walk is under way on a plateau whose lower cell is more than one step
\* from the start: the steps taken were first hops of the BFS.
C17_Witness ==
    /\ pc = "trace" /\ IsPlateau
    /\ Len(path) >= 3
    /\ LowCell \notin NeighbourCells(path[1]) \cup {path[1]}
    /\ current # LowCell

\* C19: every iteration of the loop of trace_river_path that does not end
\* the walk steps onto a cell that was not yet visited, and the visited
\* cells are cells of the grid: the walk has at most width*height cells and
\* the loop runs fewer than width*height times.
C19_TraceBounded ==
    /\ [](/\ visited \subseteq Cells
          /\ Len(path) <= width * height)
    /\ [][(pc = "trace" /\ trace_end' # "dead_end") =>
             /\ path'[Len(path')] \notin visited
             /\ visited \subseteq visited'
             /\ Cardinality(visited') > Cardinality(visited)]_vars

\* A walk of at least sixteen cells has ended because every neighbour of the
\* current cell at its elevation had been visited.
C19_Witness ==
    /\ Traced /\ trace_end = "dead_end"
    /\ Len(path) >= 16
    /\ \E n \in NeighbourCells(current) : elevation_map[n] = elevation_map[current]
    /\ \A n \in NeighbourCells(current) :
          elevation_map[n] <= elevation_map[current] => n \in visited

(***************************************************************************)
(* Properties of the repair loop of apply_rivers_to_map, checked under     *)
(* Spec.                                                                   *)
(***************************************************************************)
\* C18: the repair loop runs at most width*height times; a scan that reports
\* a gap hands over at least one cell, and every cell it hands over is not
\* yet a river cell, so each such iteration adds a cell.
C18_RepairBounded ==
    /\ repair_rounds <= width * height
    /\ pc = "repair_add" =>
          /\ new_river_cells # {}
          /\ new_river_cells \cap applied_cells = {}

\* The cells one scan inserts on account of the diagonal pair c, n: the pair
\* is seen once from c and once from n.
PairElbows(c, n, cells) ==
    ElbowFor(c, <<n[1] - c[1], n[2] - c[2]>>, cells)
        \cup ElbowFor(n, <<c[1] - n[1], c[2] - n[2]>>, cells)

\* The diagonal pairs of river cells neither of whose elbows is a river cell.
GapPairs(cells) ==
    {p \in cells \X cells :
        IsDiagonalPair(p[1], p[2]) /\ Elbows(p[1], p[2]) \cap cells = {}}

\* C20: a scan inserts exactly one elbow on account of each diagonal pair of
\* river cells without an elbow, and no elbow of the pair is lower than it.
C20_OneLowerElbow ==
    (pc = "repair" /\ gaps_filled) =>
        \A p \in GapPairs(applied_cells) :
            \E e \in Elbows(p[1], p[2]) :
                /\ PairElbows(p[1], p[2], applied_cells) = {e}
                /\ \A f \in Elbows(p[1], p[2]) :
                      map_data[e].elevation <= map_data[f].elevation

(***************************************************************************)
(* Properties of the widths and of the burn-in of apply_rivers_to_map,     *)
(* checked under Spec.                                                     *)
(***************************************************************************)
\* The sum of the widths of the cells of S.
RECURSIVE SetRatSum(_, _)
SetRatSum(S, widths) ==
    IF S = {} THEN Rat(0, 1)
    ELSE LET c == CHOOSE c \in S : TRUE
         IN  RatAdd(widths[c], SetRatSum(S \ {c}, widths))

\* C21: every river cell has a width, so burn-in never looks up a missing
\* one; a gap-fill cell gets, in the iteration that inserts it, the mean of
\* the widths of its neighbours that have one, and there is such a neighbour.
C21_EveryRiverCellHasWidth ==
    /\ [](/\ applied_cells \subseteq DOMAIN river_widths
          /\ outcome # "KeyError")
    /\ [][pc = "repair_add" =>
             \A pos \in applied_cells' \ applied_cells :
                 LET nb == NeighbourCells(pos) \cap DOMAIN river_widths
                 IN  /\ nb # {}
                     /\ pos \in DOMAIN river_widths'
                     /\ RatMul(river_widths'[pos], Rat(Cardinality(nb), 1))
                           = SetRatSum(nb, river_widths)]_vars

\* The grid was returned with a gap-fill cell that has three or more
\* neighbours with a width.
C21_Witness ==
    /\ Returned
    /\ \E c \in applied_cells \ river_cells :
          Cardinality(NeighbourCells(c) \cap DOMAIN river_widths) >= 3

\* min(len(path) / 20, 3) for a path of L cells.
BaseWidth(L) == RatMin(Rat(L, 20), Rat(3, 1))

\* C22: the width computed for the source cell of an accepted path is half
\* of base_width and the width computed for its last cell is base_width.
C22_HalfToFullWidth ==
    \A k \in 1..Len(computed_widths) :
        LET L == Len(river_paths[k])
        IN  /\ computed_widths[k][1] = RatMul(BaseWidth(L), Rat(1, 2))
            /\ computed_widths[k][L] = BaseWidth(L)

\* The widths the accepted paths computed for cell c, as <<path, position>>.
Contributions(c) ==
    {q \in UNION {{<<k, i>> : i \in 1..Len(river_paths[k])} : k \in 1..Len(river_paths)} :
        river_paths[q[1]][q[2]] = c}

\* The first pass of apply_rivers_to_map has run.
WidthsApplied == pc \in {"repair", "repair_add", "done"}

\* The cells of the paths handed to apply_rivers_to_map.
PathCells == UNION {Range(river_paths[k]) : k \in 1..Len(river_paths)}

\* C23: from the end of the first pass on, through the repair pass, the width
\* of a cell of the paths is the greatest of the widths those paths computed
\* for it, whatever the order of the paths.
C23_MaxOverPaths ==
    WidthsApplied =>
        \A c \in PathCells :
            /\ \E q \in Contributions(c) : river_widths[c] = computed_widths[q[1]][q[2]]
            /\ \A q \in Contributions(c) :
                  RatLeq(computed_widths[q[1]][q[2]], river_widths[c])

\* The repair pass has added a cell, and a cell shared by two paths holds the
\* width of the earlier path, which is greater than the later path's.
C23_Witness ==
    /\ WidthsApplied
    /\ applied_cells # PathCells
    /\ \E c \in PathCells : \E q, r \in Contributions(c) :
          /\ q[1] < r[1]
          /\ RatLess(computed_widths[r[1]][r[2]], computed_widths[q[1]][q[2]])


(***************************************************************************)
(* Properties of the sources and of the traced paths of generate_rivers,   *)
(* checked under Spec.                                                     *)
(***************************************************************************)
\* C24: every source is a cell of the grid above the source threshold, the
\* sources are traced in non-increasing order of elevation, and so are the
\* sources of the accepted paths.
C24_SourcesDescending ==
    /\ \A i \in 1..Len(sources) :
          /\ sources[i] \in Cells
          /\ elevation_map[sources[i]] > river_source_elevation_threshold
    /\ \A i, j \in 1..Len(sources) :
          i < j => elevation_map[sources[i]] >= elevation_map[sources[j]]
    /\ \A k, l \in 1..Len(river_paths) :
          k < l => elevation_map[river_paths[k][1]] >= elevation_map[river_paths[l][1]]

\* Both sources have been dealt with: the sort put the higher one first
\* although it comes later in scan order, and its path was accepted.
C24_Witness ==
    /\ Len(sources) = 2 /\ src_idx > 2
    /\ elevation_map[sources[1]] > elevation_map[sources[2]]
    /\ \/ sources[2][2] < sources[1][2]
       \/ sources[2][2] = sources[1][2] /\ sources[2][1] < sources[1][1]
    /\ river_paths # <<>>
    /\ river_paths[1][1] = sources[1]

(***************************************************************************)
(* Properties of the cells of a traced path, checked under SpecTrace.      *)
(***************************************************************************)
\* C25: in a path traced from a source at or above water_level no cell
\* other than the last is below water_level.
C25_WaterOnlyAtEnd ==
    (path # <<>> /\ elevation_map[path[1]] >= water_level) =>
        \A i \in 1..(Len(path) - 1) : elevation_map[path[i]] >= water_level

\* C27: along a traced path the elevation never increases from a cell to
\* the next one, inserted intermediate cells included.
C27_NeverUphill ==
    \A i \in 1..(Len(path) - 1) : elevation_map[path[i + 1]] <= elevation_map[path[i]]

(***************************************************************************)
(* The frame of apply_rivers_to_map, checked under Spec.                   *)
(***************************************************************************)
\* C26: apply_rivers_to_map leaves the elevation and the climate of every
\* cell and the whole record of every cell outside the final river set as
\* they were, and in the returned grid a cell is a river cell exactly when
\* it is in the river set.
C26_OnlyRiverCellsWritten ==
    /\ [][(pc = "apply" \/ pc = "repair" \/ pc = "repair_add") =>
             /\ DOMAIN map_data' = DOMAIN map_data
             /\ \A c \in DOMAIN map_data :
                   /\ map_data'[c].elevation = map_data[c].elevation
                   /\ map_data'[c].climate = map_data[c].climate
                   /\ c \notin applied_cells' => (map_data'[c] = map_data[c])]_vars
    /\ [](Returned =>
             \A c \in Cells :
                 /\ map_data[c].terrain_type = "river" <=> c \in applied_cells
                 /\ map_data[c].elevation = elevation_map[c]
                 /\ map_data[c].climate = climate_map[c])

\* The grid was returned with river cells, among them a gap-fill cell, and
\* with a cell outside the river set next to a river cell.
C26_Witness ==
    /\ Returned
    /\ applied_cells \ PathCells # {}
    /\ \E c \in Cells \ applied_cells : NeighbourCells(c) \cap applied_cells # {}

(***************************************************************************)
(* Properties of the player's credits and movement allowance, checked      *)
(* under SpecPlayer.                                                       *)
(***************************************************************************)
\* C28: under any sequence of earn_credits calls with non-negative amounts
\* and spend_credits calls, on a player whose credits start non-negative, the
\* credits never become negative; a spend_credits call for more than the
\* balance returns False and leaves the credits unchanged.
C28_CreditsNeverNegative ==
    /\ [](player.credits >= 0)
    /\ [][\A amount \in SpendAmounts :
            (SpendCredits(amount) /\ amount > player.credits)
                => (player'.credits = player.credits /\ player'.returned = "False")]_vars

\* spend_credits was asked for more than a positive balance and refused.
C28_Witness ==
    /\ player.returned = "False"
    /\ player.credits > 0
    /\ \E amount \in SpendAmounts : amount > player.credits

\* C29: within one turn the total cost of the player's successful moves never
\* exceeds the walking allowance the turn started with: the remaining movement
\* points are never negative and only the start of a new turn raises them,
\* however move_player, set_active_mech and purchase_mech requests interleave.
C29_AllowancePerTurn ==
    /\ [](/\ player.turn_cost <= player.turn_allowance
          /\ player.movement_points_remaining >= 0)
    /\ [][player'.movement_points_remaining > player.movement_points_remaining
            => player'.turn_number = player.turn_number + 1]_vars

(***************************************************************************)
(* Properties of the permutation table, checked under SpecNoise.           *)
(***************************************************************************)
LatticeSpan == 2

\* A constructed table: of generator g, elevation (1) or climate (2).
BuiltTables == {gk \in Generators \X {1, 2} : gen_perm[gk[1]][gk[2]] # <<>>}

\* The 0-based indices at which lines 60-62 read the table for the lattice
\* cell (i, j) and the middle corner offset (i1, j1): the inner reads first,
\* then the outer ones.
InnerReads(i, j, i1, j1) == {j % 256, (j % 256) + j1, (j % 256) + 1}
OuterReads(perm, i, j, i1, j1) ==
    {((i % 256) + PermAt(perm, j % 256)) % 256,
     ((i % 256) + i1 + PermAt(perm, (j % 256) + j1)) % 256,
     ((i % 256) + 1 + PermAt(perm, (j % 256) + 1)) % 256}

\* What C30 says of one table.
TableSound(perm) ==
    /\ Len(perm) = 512
    /\ {PermAt(perm, k) : k \in 0..255} = 0..255
    /\ \A k \in 0..255 : PermAt(perm, k + 256) = PermAt(perm, k)
    /\ \A i, j \in (-LatticeSpan)..LatticeSpan :
         \A c \in {<<1, 0>>, <<0, 1>>} :
            /\ InnerReads(i, j, c[1], c[2]) \subseteq 0..511
            /\ OuterReads(perm, i, j, c[1], c[2]) \subseteq 0..511
            /\ \A k \in OuterReads(perm, i, j, c[1], c[2]) :
                  /\ PermAt(perm, k) % 12 \in 0..11
                  /\ (PermAt(perm, k) % 12) + 1 \in DOMAIN grad2

\* C30: a permutation table has 512 entries, its first 256 entries are a
\* permutation of 0..255 and entry i + 256 equals entry i; for every integer
\* lattice coordinate, negative ones included, every index at which noise reads
\* the table lies in 0..511 and every gradient index lies in 0..11.  Stated of
\* every table at the step that builds it; a built table is never written again.
C30_PermutationTable ==
    [][\A g \in Generators, k \in {1, 2} :
          gen_perm'[g][k] # gen_perm[g][k]
              => (gen_perm[g][k] = <<>> /\ TableSound(gen_perm'[g][k]))]_vars

\* Every table is built and shuffled, a generator has sampled its fields, and
\* a cell with a negative coordinate reads the entry at index 256.
C30_Witness ==
    /\ BuiltTables = Generators \X {1, 2}
    /\ \E g \in Generators : gen_pc[g] = "generated"
    /\ \A gk \in BuiltTables :
          /\ \E k \in 0..255 : PermAt(gen_perm[gk[1]][gk[2]], k) # k
          /\ 256 \in InnerReads(-1, -1, 0, 1)
=============================================================================
